---- MODULE Spec2Model ----
(***************************************************************************)
(* Signal curve layer (Zastinian/signal): key derivation, agreement and    *)
(* detached signatures over one curve identity, as implemented by the      *)
(* interchangeable backends of src/curve.js and the Go/WASM modules of     *)
(* lib/main.go.                                                            *)
(*                                                                         *)
(* Buffers are byte sequences with their real lengths (32, 33, 64).  The   *)
(* group arithmetic of the external libraries is computed on a small       *)
(* twisted Edwards curve  -x^2 + y^2 = 1 + d x^2 y^2  over F_p and its      *)
(* birationally equivalent Montgomery curve, so that an Edwards key, a     *)
(* Montgomery key and the map u = (1+y)/(1-y) relate as they do on         *)
(* Curve25519; the field prime is scaled down, the byte layout is not.     *)
(***************************************************************************)
EXTENDS Integers, Sequences, FiniteSets, TLC

\* ------------------------------------------------------------------------
\* Bounds of the model
\* ------------------------------------------------------------------------
\* seeds drawn by the callers: the 32-byte seeds whose first byte is 1..MaxSeed
MaxSeed == 4
\* messages drawn by the callers: the one-byte messages <<1>> .. <<MaxMsg>>
MaxMsg == 2

\* ------------------------------------------------------------------------
\* Program constants
\* ------------------------------------------------------------------------
KeyLen == 32
TaggedKeyLen == 33
KeyTag == 5
SigLen == 64

\* Curve parameters (scaled): field prime, Edwards d, prime subgroup order,
\* and the Edwards base point of order GroupL.
FieldP == 109
EdD == 11
GroupL == 13

\* ------------------------------------------------------------------------
\* Bytes
\* ------------------------------------------------------------------------
Party == {"A", "B"}

Zeros(n) == [i \in 1..n |-> 0]

\* little-endian 32-byte encoding of a number below 256
LE32(n) == [i \in 1..KeyLen |-> IF i = 1 THEN n ELSE 0]

SubSeq1(s) == SubSeq(s, 2, Len(s))

\* scalar[0] &= 248; scalar[31] &= 127; scalar[31] |= 64
Clamp(s) ==
    [i \in 1..KeyLen |->
        IF i = 1 THEN s[1] - (s[1] % 8)
        ELSE IF i = KeyLen THEN (s[KeyLen] % 64) + 64
        ELSE s[i]]

\* value of a little-endian byte string modulo m (Horner, high byte first)
RECURSIVE ModLE(_, _, _, _)
ModLE(s, i, m, acc) ==
    IF i = 0 THEN acc
    ELSE LET nx == (acc * 256 + s[i]) % m
         IN  IF nx >= 0 THEN ModLE(s, i - 1, m, nx) ELSE nx

BytesMod(s, m) == ModLE(s, Len(s), m, 0)

\* ------------------------------------------------------------------------
\* Field and group arithmetic of the external curve libraries
\* ------------------------------------------------------------------------
FMod(z) == ((z % FieldP) + FieldP) % FieldP

\* multiplicative inverse in F_p (0 for 0, as Fermat exponentiation gives)
FInvTable == [z \in 0..(FieldP - 1) |->
                IF z = 0 THEN 0
                ELSE CHOOSE w \in 1..(FieldP - 1) : (z * w) % FieldP = 1]

FInv(z) == FInvTable[FMod(z)]

\* Edwards points are pairs <<x, y>>; the neutral element is <<0, 1>>
EdNeutral == <<0, 1>>

EdOnCurve(pt) ==
    FMod(pt[2] * pt[2] - pt[1] * pt[1]) = FMod(1 + EdD * FMod(pt[1] * pt[1]) * FMod(pt[2] * pt[2]))

EdAdd(p1, p2) ==
    LET t == FMod(EdD * FMod(p1[1] * p2[1]) * FMod(p1[2] * p2[2]))
    IN  << FMod((p1[1] * p2[2] + p2[1] * p1[2]) * FInv(1 + t)),
           FMod((p1[2] * p2[2] + p1[1] * p2[1]) * FInv(1 - t)) >>

EdNeg(pt) == << FMod(0 - pt[1]), pt[2] >>

\* double-and-add
RECURSIVE EdMul(_, _)
EdMul(k, pt) ==
    IF k = 0 THEN EdNeutral
    ELSE LET h == EdMul(k \div 2, pt)
             dbl == EdAdd(h, h)
         IN  IF k % 2 = 1 THEN EdAdd(dbl, pt) ELSE dbl

\* base point of prime order GroupL
EdBase == <<14, 54>>

\* 32-byte Ed25519 point encoding: y little-endian, the low bit of x in the
\* top bit of the last byte
EdEncode(pt) ==
    [i \in 1..KeyLen |->
        IF i = 1 THEN pt[2]
        ELSE IF i = KeyLen THEN 128 * (pt[1] % 2)
        ELSE 0]

NoPoint == <<FieldP, FieldP>>

\* decoding fails (NoPoint) for a non-canonical y or when no x exists
EdDecode(b) ==
    LET signBit == b[KeyLen] \div 128
        canonical == /\ b[1] < FieldP
                     /\ b[KeyLen] % 128 = 0
                     /\ \A i \in 2..(KeyLen - 1) : b[i] = 0
        cands == IF canonical
                 THEN {x \in 0..(FieldP - 1) : EdOnCurve(<<x, b[1]>>) /\ x % 2 = signBit}
                 ELSE {}
    IN  IF cands = {} THEN NoPoint ELSE << CHOOSE x \in cands : TRUE, b[1] >>

\* Montgomery ladder of X25519 on the curve v^2 = u^3 + A u^2 + u
MontA24 == 99

LadderStep(st, bit) ==
    LET x1 == st[1]
        a2 == IF bit = 1 THEN st[4] ELSE st[2]
        c2 == IF bit = 1 THEN st[5] ELSE st[3]
        a3 == IF bit = 1 THEN st[2] ELSE st[4]
        c3 == IF bit = 1 THEN st[3] ELSE st[5]
        A  == FMod(a2 + c2)
        AA == FMod(A * A)
        B  == FMod(a2 - c2)
        BB == FMod(B * B)
        E  == FMod(AA - BB)
        C  == FMod(a3 + c3)
        D  == FMod(a3 - c3)
        DA == FMod(D * A)
        CB == FMod(C * B)
        n3 == FMod((DA + CB) * (DA + CB))
        d3 == FMod(x1 * FMod((DA - CB) * (DA - CB)))
        n2 == FMod(AA * BB)
        d2 == FMod(E * FMod(AA + MontA24 * E))
    IN  IF bit = 1 THEN <<x1, n3, d3, n2, d2>> ELSE <<x1, n2, d2, n3, d3>>

\* the curve has 104 points and its quadratic twist 116, so [k]u depends on
\* k modulo lcm(104, 116) only
ScalarPeriod == 3016

\* the ladder over bits i-1 .. 0 of the scalar, high bit first
RECURSIVE Ladder(_, _, _)
Ladder(n, i, st) ==
    IF i = 0 THEN st
    ELSE LET nx == LadderStep(st, (n \div (2 ^ (i - 1))) % 2)
         IN  IF nx[1] = st[1] THEN Ladder(n, i - 1, nx) ELSE nx

\* scalar multiplication X25519(k, u): the scalar is clamped, the top bit of
\* u is masked, the result is the 32-byte u coordinate of [k]P
X25519(k, u) ==
    LET kc == Clamp(k)
        x1 == BytesMod([i \in 1..KeyLen |-> IF i = KeyLen THEN u[i] % 128 ELSE u[i]], FieldP)
        affine(st) == LE32(FMod(st[2] * FInv(st[3])))
    IN  affine(Ladder(BytesMod(kc, ScalarPeriod), 12, <<x1, 1, 0, x1, 1>>))

MontBaseU == 73

X25519Base(k) == X25519(k, LE32(MontBaseU))

\* ------------------------------------------------------------------------
\* Hashing and Ed25519 of the external libraries
\* ------------------------------------------------------------------------
\* stand-in for SHA-512: a 64-byte digest that depends on every input byte
\* and on its position
RECURSIVE Absorb(_, _, _)
Absorb(s, i, acc) ==
    IF i > Len(s) THEN acc
    ELSE LET nx == (acc * 31 + s[i] * (i + 2) + 17) % 65521
         IN  IF nx >= 0 THEN Absorb(s, i + 1, nx) ELSE nx

Sha512(s) ==
    LET h == Absorb(s, 1, 7 + Len(s))
    IN  [j \in 1..64 |-> (h * (2 * j + 1) + (h \div 251) + j * j) % 256]

\* secret scalar derived from a seed (the nonce prefix is the other half of
\* the digest)
EdScalarBytes(seed) == Clamp(SubSeq(Sha512(seed), 1, KeyLen))

\* public key of a secret scalar given as 32 bytes
EdPublicOfScalar(a) == EdEncode(EdMul(BytesMod(a, GroupL), EdBase))

\* ed25519 public key of a seed
EdPublicKey(seed) == EdPublicOfScalar(EdScalarBytes(seed))

\* signature of msg under the secret scalar a, nonce prefix and public key
EdSignWith(a, prefix, pub, msg) ==
    LET r  == BytesMod(Sha512(prefix \o msg), GroupL)
        R  == EdEncode(EdMul(r, EdBase))
        k  == BytesMod(Sha512(R \o pub \o msg), GroupL)
        S  == (r + k * BytesMod(a, GroupL)) % GroupL
    IN  R \o LE32(S)

EdSign(seed, msg) == EdSignWith(EdScalarBytes(seed), SubSeq(Sha512(seed), KeyLen + 1, 64), EdPublicKey(seed), msg)

\* standard verification: [S]B = R + [k]A, compared on the encoding of R;
\* an undecodable key or a non-canonical S does not verify
EdVerify(pub, msg, sig) ==
    LET A  == EdDecode(pub)
        Rb == SubSeq(sig, 1, KeyLen)
        Sb == SubSeq(sig, KeyLen + 1, SigLen)
        k  == BytesMod(Sha512(Rb \o pub \o msg), GroupL)
    IN  /\ A # NoPoint
        /\ Sb[1] < GroupL
        /\ \A i \in 2..KeyLen : Sb[i] = 0
        /\ EdEncode(EdAdd(EdMul(Sb[1], EdBase), EdNeg(EdMul(k, A)))) = Rb

\* curve25519-js: signature made with the clamped Montgomery secret; the sign
\* of the Edwards x is carried in the top bit of the last signature byte
XSign(sk, msg) ==
    LET a   == Clamp(sk)
        pub == EdPublicOfScalar(a)
        sg  == EdSignWith(a, a, [i \in 1..KeyLen |-> IF i = KeyLen THEN pub[i] % 128 ELSE pub[i]], msg)
    IN  [i \in 1..SigLen |-> IF i = SigLen THEN sg[i] + 128 * (pub[KeyLen] \div 128) ELSE sg[i]]

\* curve25519-js: the Montgomery key is mapped back, y = (u - 1) / (u + 1)
XVerify(pk, msg, sig) ==
    LET u   == BytesMod([i \in 1..KeyLen |-> IF i = KeyLen THEN pk[i] % 128 ELSE pk[i]], FieldP)
        y   == FMod((u - 1) * FInv(u + 1))
        sgn == sig[SigLen] \div 128
        pub == [i \in 1..KeyLen |-> IF i = 1 THEN y ELSE 0]
        edk == [i \in 1..KeyLen |-> IF i = KeyLen THEN 128 * sgn ELSE pub[i]]
        sg  == [i \in 1..SigLen |-> IF i = SigLen THEN sig[i] % 128 ELSE sig[i]]
        A   == EdDecode(edk)
        Rb  == SubSeq(sg, 1, KeyLen)
        Sb  == SubSeq(sg, KeyLen + 1, SigLen)
        k   == BytesMod(Sha512(Rb \o pub \o msg), GroupL)
    IN  /\ A # NoPoint
        /\ Sb[1] < GroupL
        /\ \A i \in 2..KeyLen : Sb[i] = 0
        /\ EdEncode(EdAdd(EdMul(Sb[1], EdBase), EdNeg(EdMul(k, A)))) = Rb

\* ------------------------------------------------------------------------
\* Inputs drawn by the callers
\* ------------------------------------------------------------------------
SeedBytes(n) == [i \in 1..KeyLen |-> (n * i) % 256]

\* On Curve25519 a clamped scalar lies in [2^254, 2^255) and is never a
\* multiple of the subgroup order; the scaled group keeps only seeds with
\* that property.
ProperSeed(seed) ==
    /\ BytesMod(Clamp(seed), GroupL) # 0
    /\ BytesMod(EdScalarBytes(seed), GroupL) # 0

RECURSIVE NthProper(_, _)
NthProper(k, n) ==
    IF ProperSeed(SeedBytes(n))
    THEN (IF k = 1 THEN n ELSE NthProper(k - 1, n + 1))
    ELSE NthProper(k, n + 1)

ValidSeeds == {SeedBytes(NthProper(k, 1)) : k \in 1..MaxSeed}

Messages == {<<m>> : m \in 1..MaxMsg}

\* ------------------------------------------------------------------------
\* JavaScript values and call outcomes
\* ------------------------------------------------------------------------
Undefined == [type |-> "undefined", bytes |-> <<>>]

\* a Node Buffer
Buf(b) == [type |-> "Buffer", bytes |-> b]

\* a plain Uint8Array (not an instance of Buffer)
U8(b) == [type |-> "Uint8Array", bytes |-> b]

Bool(v) == [type |-> "boolean", bool |-> v]

\* { pubKey, privKey }
KeyPair(pub, priv) == [type |-> "keypair", pubKey |-> pub, privKey |-> priv]

\* an instance of Error
ErrObj(m) == [type |-> "Error", msg |-> m]

\* a plain object { error: message }
ErrRec(m) == [type |-> "errorRecord", msg |-> m]

\* a call either returns a value or throws; for an async function and for a
\* promise "return" is the resolved value and "throw" the rejection
Ret(v) == [kind |-> "return", val |-> v]

Throw(m) == [kind |-> "throw", val |-> ErrObj(m)]

IsBytes(v) == v.type \in {"Buffer", "Uint8Array"}

\* Buffer.from(v): copies a byte array, a TypeError for anything else
BufferFrom(v) == IF IsBytes(v) THEN Ret(Buf(v.bytes)) ELSE Throw("TypeError")

\* a key built with another tag byte
FormatPubKey_wrongTag(key) == <<KeyTag + 1>> \o key

\* pub = new Uint8Array(33); pub.set(key, 1); pub[0] = 5
FormatPubKey(key) == <<KeyTag>> \o key

\* ------------------------------------------------------------------------
\* Validation and the public-key codec (src/curve.js)
\* ------------------------------------------------------------------------
Passed == [kind |-> "passed", val |-> Undefined]

validatePrivKey(privKey) ==
    IF privKey.type = "undefined" THEN Throw("Undefined private key")
    ELSE IF privKey.type # "Buffer" THEN Throw("Invalid private key type")
    ELSE IF Len(privKey.bytes) # KeyLen THEN Throw("Incorrect private key length")
    ELSE Passed

\* a decoder that strips the first byte of every 33-byte key
scrubPubKeyFormat_anyTag(pubKey) ==
    IF pubKey.type # "Buffer" THEN Throw("Invalid public key type")
    ELSE IF Len(pubKey.bytes) # TaggedKeyLen /\ Len(pubKey.bytes) # KeyLen
         THEN Throw("Invalid public key")
    ELSE IF Len(pubKey.bytes) = TaggedKeyLen
         THEN Ret(Buf(SubSeq1(pubKey.bytes)))
    ELSE Ret(Buf(pubKey.bytes))

scrubPubKeyFormat(pubKey) ==
    IF pubKey.type # "Buffer" THEN Throw("Invalid public key type")
    ELSE IF /\ (Len(pubKey.bytes) # TaggedKeyLen \/ pubKey.bytes[1] # KeyTag)
            /\ Len(pubKey.bytes) # KeyLen
         THEN Throw("Invalid public key")
    ELSE IF Len(pubKey.bytes) = TaggedKeyLen
         THEN Ret(Buf(SubSeq1(pubKey.bytes)))
    ELSE Ret(Buf(pubKey.bytes))

\* !message
NoMessage(message) == message.type = "undefined"

\* !sig || sig.byteLength != 64
BadSignature(sig) == sig.type = "undefined" \/ Len(sig.bytes) # SigLen

\* ------------------------------------------------------------------------
\* Native-library backends
\* ------------------------------------------------------------------------
ZeroKey == Zeros(KeyLen)

\* --- curve25519-js ---
createKeyPair_curve25519js(privKey) ==
    LET v == validatePrivKey(privKey)
    IN  IF v.kind = "throw" THEN v
        ELSE Ret(KeyPair(FormatPubKey(X25519Base(privKey.bytes)), Clamp(privKey.bytes)))

calculateAgreement_curve25519js(pubKey, privKey) ==
    LET k == scrubPubKeyFormat(pubKey)
        v == validatePrivKey(privKey)
    IN  IF k.kind = "throw" THEN k
        ELSE IF v.kind = "throw" THEN v
        ELSE Ret(Buf(X25519(privKey.bytes, k.val.bytes)))

calculateSignature_curve25519js(privKey, message) ==
    LET v == validatePrivKey(privKey)
    IN  IF v.kind = "throw" THEN v
        ELSE IF NoMessage(message) THEN Throw("Invalid message")
        ELSE Ret(Buf(XSign(privKey.bytes, message.bytes)))

verifySignature_curve25519js(pubKey, msg, sig, isInit) ==
    LET k == scrubPubKeyFormat(pubKey)
    IN  IF k.kind = "throw" THEN k
        ELSE IF NoMessage(msg) THEN Throw("Invalid message")
        ELSE IF BadSignature(sig) THEN Throw("Invalid signature")
        ELSE IF isInit THEN Ret(Bool(TRUE))
        ELSE Ret(Bool(XVerify(k.val.bytes, msg.bytes, sig.bytes)))

\* --- tweetnacl ---
createKeyPair_tweetnacl(privKey) ==
    LET v == validatePrivKey(privKey)
    IN  IF v.kind = "throw" THEN v
        ELSE Ret(KeyPair(FormatPubKey(X25519Base(privKey.bytes)), privKey.bytes))

calculateAgreement_tweetnacl(pubKey, privKey) ==
    LET k == scrubPubKeyFormat(pubKey)
        v == validatePrivKey(privKey)
    IN  IF k.kind = "throw" THEN k
        ELSE IF v.kind = "throw" THEN v
        ELSE Ret(Buf(X25519(privKey.bytes, k.val.bytes)))

calculateSignature_tweetnacl(privKey, message) ==
    LET v == validatePrivKey(privKey)
    IN  IF v.kind = "throw" THEN v
        ELSE IF NoMessage(message) THEN Throw("Invalid message")
        ELSE Ret(Buf(EdSign(privKey.bytes, message.bytes)))

\* a verification that raises an error when the signature does not verify
verifySignature_throwing(pubKey, msg, sig, isInit) ==
    LET k == scrubPubKeyFormat(pubKey)
    IN  IF k.kind = "throw" THEN k
        ELSE IF NoMessage(msg) THEN Throw("Invalid message")
        ELSE IF BadSignature(sig) THEN Throw("Invalid signature")
        ELSE IF isInit THEN Ret(Bool(TRUE))
        ELSE IF EdVerify(k.val.bytes, msg.bytes, sig.bytes) THEN Ret(Bool(TRUE))
        ELSE Throw("Invalid signature")

\* try { return nacl.sign.detached.verify(...) } catch (e) { return false }
verifySignature_tweetnacl(pubKey, msg, sig, isInit) ==
    LET k == scrubPubKeyFormat(pubKey)
    IN  IF k.kind = "throw" THEN k
        ELSE IF NoMessage(msg) THEN Throw("Invalid message")
        ELSE IF BadSignature(sig) THEN Throw("Invalid signature")
        ELSE IF isInit THEN Ret(Bool(TRUE))
        ELSE Ret(Bool(EdVerify(k.val.bytes, msg.bytes, sig.bytes)))

\* --- @noble/curves (src/curve.js) ---
createKeyPair_noble(privKey) ==
    LET v == validatePrivKey(privKey)
    IN  IF v.kind = "throw" THEN v
        ELSE Ret(KeyPair(FormatPubKey(EdPublicKey(privKey.bytes)), privKey.bytes))

\* x25519.getSharedSecret throws on an all-zero shared secret
calculateAgreement_noble(pubKey, privKey) ==
    LET k == scrubPubKeyFormat(pubKey)
        v == validatePrivKey(privKey)
    IN  IF k.kind = "throw" THEN k
        ELSE IF v.kind = "throw" THEN v
        ELSE LET out(sh) == IF sh = ZeroKey
                             THEN Throw("invalid private or public key received")
                             ELSE Ret(Buf(sh))
             IN  out(X25519(privKey.bytes, k.val.bytes))

calculateSignature_noble(privKey, message) ==
    LET v == validatePrivKey(privKey)
    IN  IF v.kind = "throw" THEN v
        ELSE IF NoMessage(message) THEN Throw("Invalid message")
        ELSE Ret(Buf(EdSign(privKey.bytes, message.bytes)))

\* return isInit ? true : ed25519.verify(sig, msg, cleanedPubKey)
verifySignature_noble(pubKey, msg, sig, isInit) ==
    LET k == scrubPubKeyFormat(pubKey)
    IN  IF k.kind = "throw" THEN k
        ELSE IF NoMessage(msg) THEN Throw("Invalid message")
        ELSE IF BadSignature(sig) THEN Throw("Invalid signature")
        ELSE IF isInit THEN Ret(Bool(TRUE))
        ELSE Ret(Bool(EdVerify(k.val.bytes, msg.bytes, sig.bytes)))

\* --- @noble/curves, second version: isInit is tested first ---
scrubPubKeyFormat_noble2(pubKey) ==
    IF pubKey.type # "Buffer" THEN Throw("Invalid public key type")
    ELSE IF Len(pubKey.bytes) = TaggedKeyLen /\ pubKey.bytes[1] = KeyTag
         THEN Ret(Buf(SubSeq1(pubKey.bytes)))
    ELSE IF Len(pubKey.bytes) = KeyLen THEN Ret(Buf(pubKey.bytes))
    ELSE Throw("Invalid public key")

calculateAgreement_noble2(pubKey, privKey) ==
    LET k == IF pubKey.type = "Buffer" /\ Len(pubKey.bytes) = TaggedKeyLen /\ pubKey.bytes[1] = KeyTag
             THEN Ret(Buf(SubSeq1(pubKey.bytes)))
             ELSE IF pubKey.type = "Buffer" /\ Len(pubKey.bytes) = KeyLen
             THEN Ret(Buf(pubKey.bytes))
             ELSE Throw("Invalid public key for X25519")
        v == validatePrivKey(privKey)
    IN  IF k.kind = "throw" THEN k
        ELSE IF v.kind = "throw" THEN v
        ELSE LET out(sh) == IF sh = ZeroKey
                             THEN Throw("invalid private or public key received")
                             ELSE Ret(Buf(sh))
             IN  out(X25519(privKey.bytes, k.val.bytes))

verifySignature_noble2(pubKey, msg, sig, isInit) ==
    IF isInit THEN Ret(Bool(TRUE))
    ELSE LET k == scrubPubKeyFormat_noble2(pubKey)
         IN  IF k.kind = "throw" THEN k
             ELSE IF NoMessage(msg) THEN Throw("Invalid message")
             ELSE IF BadSignature(sig) THEN Throw("Invalid signature")
             ELSE Ret(Bool(EdVerify(k.val.bytes, msg.bytes, sig.bytes)))

\* --- @stablelib ---
createKeyPair_stablelib(privKey) ==
    LET v == validatePrivKey(privKey)
    IN  IF v.kind = "throw" THEN v
        ELSE Ret(KeyPair(FormatPubKey(X25519Base(privKey.bytes)), privKey.bytes))

calculateAgreement_stablelib(pubKey, privKey) ==
    LET k == scrubPubKeyFormat(pubKey)
        v == validatePrivKey(privKey)
    IN  IF k.kind = "throw" THEN k
        ELSE IF v.kind = "throw" THEN v
        ELSE Ret(Buf(X25519(privKey.bytes, k.val.bytes)))

calculateSignature_stablelib(privKey, message) ==
    LET v == validatePrivKey(privKey)
    IN  IF v.kind = "throw" THEN v
        ELSE IF NoMessage(message) THEN Throw("Invalid message")
        ELSE Ret(Buf(EdSign(privKey.bytes, message.bytes)))

verifySignature_stablelib(pubKey, msg, sig, isInit) ==
    LET k == scrubPubKeyFormat(pubKey)
    IN  IF k.kind = "throw" THEN k
        ELSE IF NoMessage(msg) THEN Throw("Invalid message")
        ELSE IF BadSignature(sig) THEN Throw("Invalid signature")
        ELSE IF isInit THEN Ret(Bool(TRUE))
        ELSE Ret(Bool(EdVerify(k.val.bytes, msg.bytes, sig.bytes)))

\* --- sodium-native, run in a worker thread (src/crypto-worker.js) ---
\* crypto_sign_ed25519_pk_to_curve25519: fails for a key that is not a point
\* of the main subgroup, otherwise u = (1 + y) / (1 - y)
SodiumPkToCurve(edPk) ==
    LET conv(A) ==
            IF A = NoPoint \/ EdMul(8, A) = EdNeutral \/ EdMul(GroupL, A) # EdNeutral
            THEN <<>>
            ELSE LE32(FMod((1 + A[2]) * FInv(1 - A[2])))
    IN  conv(EdDecode(edPk))

createKeyPair_worker(privKey) ==
    LET v == validatePrivKey(privKey)
    IN  IF v.kind = "throw" THEN v
        ELSE Ret(KeyPair(FormatPubKey(EdPublicKey(privKey.bytes)), privKey.bytes))

calculateAgreement_worker(pubKey, privKey) ==
    LET k == scrubPubKeyFormat(pubKey)
        v == validatePrivKey(privKey)
    IN  IF k.kind = "throw" THEN k
        ELSE IF v.kind = "throw" THEN v
        ELSE LET out(sh) == IF sh = ZeroKey THEN Throw("ENOMEM, Cannot allocate memory")
                             ELSE Ret(Buf(sh))
                 mult(x25519Sk, x25519Pk) ==
                     IF x25519Pk = <<>> THEN Throw("ENOMEM, Cannot allocate memory")
                     ELSE out(X25519(x25519Sk, x25519Pk))
             IN  mult(EdScalarBytes(privKey.bytes), SodiumPkToCurve(k.val.bytes))

calculateSignature_worker(privKey, message) ==
    LET v == validatePrivKey(privKey)
    IN  IF v.kind = "throw" THEN v
        ELSE IF NoMessage(message) THEN Throw("Invalid message")
        ELSE Ret(Buf(EdSign(privKey.bytes, message.bytes)))

verifySignature_worker(pubKey, msg, sig) ==
    LET k == scrubPubKeyFormat(pubKey)
    IN  IF k.kind = "throw" THEN k
        ELSE IF NoMessage(msg) THEN Throw("Invalid message")
        ELSE IF BadSignature(sig) THEN Throw("Invalid signature")
        ELSE Ret(Bool(EdVerify(k.val.bytes, msg.bytes, sig.bytes)))

\* the worker script posts the task's result, or { error: e.message } when
\* the task throws; runInWorker resolves its promise with whatever message
\* arrives (the message is taken to carry the posted value unchanged)
runInWorker(taskOutcome) ==
    IF taskOutcome.kind = "throw" THEN Ret(ErrRec(taskOutcome.val.msg))
    ELSE taskOutcome

verifySignature_dispatch(pubKey, msg, sig, isInit) ==
    IF isInit THEN Ret(Bool(TRUE))
    ELSE runInWorker(verifySignature_worker(pubKey, msg, sig))

\* ------------------------------------------------------------------------
\* Go modules compiled to lib/main.wasm
\* ------------------------------------------------------------------------
\* A Go export returns a JS value ("value"), or panics ("panic"), or (promise
\* module) returns a promise that is resolved or rejected.
GoVal(v) == [kind |-> "value", val |-> v]

GoPanic == [kind |-> "panic", val |-> Undefined]

GoResolve(v) == [kind |-> "resolved", val |-> v]

GoReject(m) == [kind |-> "rejected", val |-> ErrObj(m)]

\* value.Get("length") panics on undefined
Panics(value) == value.type = "undefined"

\* curve25519.X25519; its error return (all-zero output for a low-order
\* point) is tested where it is called
GoX25519(scalar, point) == X25519(scalar, point)

\* --- lib/main.go ---
createKeyPair_main(seed) ==
    IF Panics(seed) THEN GoPanic
    ELSE IF Len(seed.bytes) # KeyLen THEN GoVal(ErrObj("Invalid private key seed"))
    ELSE LET out(publicKey) ==
                 GoVal(KeyPair(<<KeyTag>> \o publicKey, seed.bytes \o publicKey))
         IN  out(EdPublicKey(seed.bytes))

calculateAgreement_main(pubKey, privKeySeed) ==
    IF Panics(pubKey) \/ Panics(privKeySeed) THEN GoPanic
    ELSE IF Len(privKeySeed.bytes) # KeyLen THEN GoVal(ErrObj("Invalid private key"))
    ELSE IF ~ \/ (Len(pubKey.bytes) = TaggedKeyLen /\ pubKey.bytes[1] = KeyTag)
              \/ Len(pubKey.bytes) = KeyLen
         THEN GoVal(ErrObj("Invalid public key format"))
    ELSE LET scrubbedPubKey == IF Len(pubKey.bytes) = TaggedKeyLen
                               THEN SubSeq1(pubKey.bytes) ELSE pubKey.bytes
             out(sharedSecret) ==
                 IF sharedSecret = ZeroKey THEN GoVal(ErrObj("Failed to calculate agreement"))
                 ELSE GoVal(U8(sharedSecret))
         IN  out(GoX25519(privKeySeed.bytes, scrubbedPubKey))

calculateSignature_main(privKeySeed, message) ==
    IF Panics(privKeySeed) THEN GoPanic
    ELSE IF Len(privKeySeed.bytes) # KeyLen THEN GoVal(ErrObj("Invalid private key"))
    ELSE IF Panics(message) THEN GoPanic
    ELSE GoVal(U8(EdSign(privKeySeed.bytes, message.bytes)))

verifySignature_main(pubKey, msg, sig, isInit) ==
    IF isInit THEN GoVal(Bool(TRUE))
    ELSE IF Panics(pubKey) \/ Panics(msg) \/ Panics(sig) THEN GoPanic
    ELSE IF Len(sig.bytes) # SigLen THEN GoVal(ErrObj("Invalid signature"))
    ELSE IF ~ \/ (Len(pubKey.bytes) = TaggedKeyLen /\ pubKey.bytes[1] = KeyTag)
              \/ Len(pubKey.bytes) = KeyLen
         THEN GoVal(ErrObj("Invalid public key format"))
    ELSE LET scrubbedPubKey == IF Len(pubKey.bytes) = TaggedKeyLen
                               THEN SubSeq1(pubKey.bytes) ELSE pubKey.bytes
         IN  GoVal(Bool(EdVerify(scrubbedPubKey, msg.bytes, sig.bytes)))

\* --- Go module that returns the seed as privKey; its other exports are
\* those of lib/main.go ---
createKeyPair_seed(privKeySeed) ==
    IF Panics(privKeySeed) THEN GoPanic
    ELSE IF Len(privKeySeed.bytes) # KeyLen THEN GoVal(ErrObj("Invalid private key seed"))
    ELSE GoVal(KeyPair(<<KeyTag>> \o EdPublicKey(privKeySeed.bytes), privKeySeed.bytes))

\* --- Go module with scrubPubKey; copyBytesFromJS rejects a zero length ---
scrubPubKey(pubKey) ==
    IF Len(pubKey) = TaggedKeyLen /\ pubKey[1] = KeyTag THEN Ret(Buf(SubSeq1(pubKey)))
    ELSE IF Len(pubKey) = KeyLen THEN Ret(Buf(pubKey))
    ELSE Throw("invalid public key format")

createKeyPair_scrub(seed) ==
    IF Panics(seed) THEN GoPanic
    ELSE IF Len(seed.bytes) # KeyLen THEN GoVal(ErrObj("invalid private key seed"))
    ELSE GoVal(KeyPair(<<KeyTag>> \o EdPublicKey(seed.bytes), seed.bytes))

calculateAgreement_scrub(pubKey, privKey) ==
    IF Panics(pubKey) THEN GoPanic
    ELSE IF Len(pubKey.bytes) = 0 THEN GoVal(ErrObj("invalid public key"))
    ELSE IF Panics(privKey) THEN GoPanic
    ELSE IF Len(privKey.bytes) # KeyLen THEN GoVal(ErrObj("invalid private key"))
    ELSE LET k == scrubPubKey(pubKey.bytes)
         IN  IF k.kind = "throw" THEN GoVal(k.val)
             ELSE LET out(sharedSecret) ==
                          IF sharedSecret = ZeroKey
                          THEN GoVal(ErrObj("failed to calculate shared secret"))
                          ELSE GoVal(U8(sharedSecret))
                  IN  out(GoX25519(privKey.bytes, k.val.bytes))

calculateSignature_scrub(privKeySeed, message) ==
    IF Panics(privKeySeed) THEN GoPanic
    ELSE IF Len(privKeySeed.bytes) # KeyLen THEN GoVal(ErrObj("invalid private key seed"))
    ELSE IF Panics(message) THEN GoPanic
    ELSE IF Len(message.bytes) = 0 THEN GoVal(ErrObj("invalid message"))
    ELSE GoVal(U8(EdSign(privKeySeed.bytes, message.bytes)))

verifySignature_scrub(pubKey, msg, sig, isInit) ==
    IF isInit THEN GoVal(Bool(TRUE))
    ELSE IF Panics(pubKey) THEN GoPanic
    ELSE IF Len(pubKey.bytes) = 0 THEN GoVal(ErrObj("invalid public key"))
    ELSE IF Panics(msg) THEN GoPanic
    ELSE IF Len(msg.bytes) = 0 THEN GoVal(ErrObj("invalid message"))
    ELSE IF Panics(sig) THEN GoPanic
    ELSE IF Len(sig.bytes) # SigLen THEN GoVal(ErrObj("invalid signature"))
    ELSE LET k == scrubPubKey(pubKey.bytes)
         IN  IF k.kind = "throw" THEN GoVal(k.val)
             ELSE GoVal(Bool(EdVerify(k.val.bytes, msg.bytes, sig.bytes)))

\* --- Go module whose exports return promises ---
createKeyPair_promise(seed) ==
    IF Panics(seed) THEN GoPanic
    ELSE IF Len(seed.bytes) # KeyLen THEN GoReject("Invalid private key seed")
    ELSE LET out(publicKey) ==
                 GoResolve(KeyPair(<<KeyTag>> \o publicKey, seed.bytes \o publicKey))
         IN  out(EdPublicKey(seed.bytes))

calculateAgreement_promise(pubKey, privKeySeed) ==
    IF Panics(pubKey) \/ Panics(privKeySeed) THEN GoPanic
    ELSE IF Len(privKeySeed.bytes) # KeyLen THEN GoReject("Invalid private key")
    ELSE IF ~ \/ (Len(pubKey.bytes) = TaggedKeyLen /\ pubKey.bytes[1] = KeyTag)
              \/ Len(pubKey.bytes) = KeyLen
         THEN GoReject("Invalid public key format")
    ELSE LET scrubbedPubKey == IF Len(pubKey.bytes) = TaggedKeyLen
                               THEN SubSeq1(pubKey.bytes) ELSE pubKey.bytes
             out(sharedSecret) ==
                 IF sharedSecret = ZeroKey THEN GoReject("Failed to calculate agreement")
                 ELSE GoResolve(U8(sharedSecret))
         IN  out(GoX25519(privKeySeed.bytes, scrubbedPubKey))

calculateSignature_promise(privKeySeed, message) ==
    IF Panics(privKeySeed) THEN GoPanic
    ELSE IF Len(privKeySeed.bytes) # KeyLen THEN GoReject("Invalid private key")
    ELSE IF Panics(message) THEN GoPanic
    ELSE GoResolve(U8(EdSign(privKeySeed.bytes, message.bytes)))

verifySignature_promise(pubKey, msg, sig, isInit) ==
    IF isInit THEN GoResolve(Bool(TRUE))
    ELSE IF Panics(pubKey) \/ Panics(msg) \/ Panics(sig) THEN GoPanic
    ELSE IF Len(sig.bytes) # SigLen THEN GoReject("Invalid signature")
    ELSE IF ~ \/ (Len(pubKey.bytes) = TaggedKeyLen /\ pubKey.bytes[1] = KeyTag)
              \/ Len(pubKey.bytes) = KeyLen
         THEN GoReject("Invalid public key format")
    ELSE LET scrubbedPubKey == IF Len(pubKey.bytes) = TaggedKeyLen
                               THEN SubSeq1(pubKey.bytes) ELSE pubKey.bytes
         IN  GoResolve(Bool(EdVerify(scrubbedPubKey, msg.bytes, sig.bytes)))

\* --- big-integer Go module: Edwards keys, birational conversion ---
\* Go functions returning (value, error): "return" carries the value, "throw"
\* the non-nil error
validatePrivKey_go(privKey) ==
    IF Len(privKey) # KeyLen THEN Throw("incorrect private key length") ELSE Passed

scrubPubKeyFormat_go(pubKey) ==
    IF Len(pubKey) = TaggedKeyLen /\ pubKey[1] = KeyTag THEN Ret(Buf(SubSeq1(pubKey)))
    ELSE IF Len(pubKey) = KeyLen THEN Ret(Buf(pubKey))
    ELSE Throw("invalid public key")

\* a converter that multiplies by the denominator instead of its inverse
ed25519ToX25519PublicKey_noInverse(edPubKey) ==
    IF Len(edPubKey) # KeyLen THEN Throw("invalid ed25519 public key length")
    ELSE IF (\E i \in 2..KeyLen : edPubKey[i] # 0) \/ edPubKey[1] >= FieldP
         THEN Throw("invalid ed25519 public key")
    ELSE IF ((FieldP - edPubKey[1]) + 1) % FieldP = 0
         THEN Throw("invalid ed25519 public key")
    ELSE Ret(Buf(LE32(((edPubKey[1] + 1) * ((FieldP - edPubKey[1]) + 1)) % FieldP)))

\* a converter that reduces y modulo p instead of comparing it with p
ed25519ToX25519PublicKey_noRangeCheck(edPubKey) ==
    IF Len(edPubKey) # KeyLen THEN Throw("invalid ed25519 public key length")
    ELSE IF (1 - BytesMod(edPubKey, FieldP)) % FieldP = 0
         THEN Throw("invalid ed25519 public key")
    ELSE Ret(Buf(LE32(((BytesMod(edPubKey, FieldP) + 1)
                          * FInv(1 - BytesMod(edPubKey, FieldP))) % FieldP)))

\* a converter that does not test whether the inverse exists
ed25519ToX25519PublicKey_noInverseTest(edPubKey) ==
    IF Len(edPubKey) # KeyLen THEN Throw("invalid ed25519 public key length")
    ELSE IF (\E i \in 2..KeyLen : edPubKey[i] # 0) \/ edPubKey[1] >= FieldP
         THEN Throw("invalid ed25519 public key")
    ELSE Ret(Buf(LE32(((edPubKey[1] + 1) * FInv((FieldP - edPubKey[1]) + 1)) % FieldP)))

\* y := SetBytes(reverse(edPubKey)) is compared with p on all 32 bytes
ed25519ToX25519PublicKey(edPubKey) ==
    IF Len(edPubKey) # KeyLen THEN Throw("invalid ed25519 public key length")
    ELSE IF (\E i \in 2..KeyLen : edPubKey[i] # 0) \/ edPubKey[1] >= FieldP
         THEN Throw("invalid ed25519 public key")
    ELSE LET y == edPubKey[1]
             yPlus1 == y + 1
             yMinus1 == (FieldP - y) + 1
         IN  IF yMinus1 = 0 THEN Throw("invalid ed25519 public key")
             ELSE IF yMinus1 % FieldP = 0 THEN Throw("invalid ed25519 public key")
             ELSE Ret(Buf(LE32((yPlus1 * FInv(yMinus1)) % FieldP)))

calculateAgreement_go(pubKey, privKey) ==
    LET k == scrubPubKeyFormat_go(pubKey)
        v == validatePrivKey_go(privKey)
    IN  IF k.kind = "throw" THEN k
        ELSE IF v.kind = "throw" THEN v
        ELSE LET out(shared) ==
                     IF shared = ZeroKey THEN Throw("bad input point: low order point")
                     ELSE Ret(Buf(shared))
                 mult(scalar, x25519PubKey) ==
                     IF x25519PubKey.kind = "throw" THEN x25519PubKey
                     ELSE out(GoX25519(scalar, x25519PubKey.val.bytes))
             IN  mult(EdScalarBytes(privKey), ed25519ToX25519PublicKey(k.val.bytes))

calculateSignature_go(privKey, message) ==
    LET v == validatePrivKey_go(privKey)
    IN  IF v.kind = "throw" THEN v
        ELSE IF Len(message) = 0 THEN Throw("invalid message")
        ELSE Ret(Buf(EdSign(privKey, message)))

verifySignature_go(pubKey, message, signature, isInit) ==
    LET k == scrubPubKeyFormat_go(pubKey)
    IN  IF k.kind = "throw" THEN k
        ELSE IF Len(message) = 0 THEN Throw("invalid message")
        ELSE IF Len(signature) # SigLen THEN Throw("invalid signature")
        ELSE IF isInit THEN Ret(Bool(TRUE))
        ELSE Ret(Bool(EdVerify(k.val.bytes, message, signature)))

\* a pass that returns the pair without trying the conversion
createKeyPair_go_pass_unconverted(seed) ==
    Ret(KeyPair(<<KeyTag>> \o EdPublicKey(seed), seed))

\* a pass whose converter rejects every public key
createKeyPair_go_pass_neverConverts(seed) == [kind |-> "redraw", val |-> Undefined]

\* one pass of the loop of createKeyPair on the current seed: the key pair
\* when the derived public key converts, "redraw" otherwise
createKeyPair_go_pass(seed) ==
    LET pass(pubKey) ==
            IF ed25519ToX25519PublicKey(pubKey).kind = "return"
            THEN Ret(KeyPair(<<KeyTag>> \o pubKey, seed))
            ELSE [kind |-> "redraw", val |-> Undefined]
    IN  pass(EdPublicKey(seed))

\* js wrappers of the module: an error becomes the object { error }
jsResult(r) == IF r.kind = "throw" THEN GoVal(ErrRec(r.val.msg)) ELSE GoVal(r.val)

jsCalculateAgreement(pubKey, privKey) ==
    IF Panics(pubKey) \/ Panics(privKey) THEN GoPanic
    ELSE LET out(r) == IF r.kind = "throw" THEN jsResult(r) ELSE GoVal(U8(r.val.bytes))
         IN  out(calculateAgreement_go(pubKey.bytes, privKey.bytes))

jsCalculateSignature(privKey, message) ==
    IF Panics(privKey) \/ Panics(message) THEN GoPanic
    ELSE LET out(r) == IF r.kind = "throw" THEN jsResult(r) ELSE GoVal(U8(r.val.bytes))
         IN  out(calculateSignature_go(privKey.bytes, message.bytes))

jsVerifySignature(pubKey, message, signature, isInit) ==
    IF Panics(pubKey) \/ Panics(message) \/ Panics(signature) THEN GoPanic
    ELSE jsResult(verifySignature_go(pubKey.bytes, message.bytes, signature.bytes, isInit))

\* ------------------------------------------------------------------------
\* WASM wrappers (versions of src/curve.js that load lib/main.wasm)
\* ------------------------------------------------------------------------
\* dispatch on the Go module behind global.goCrypto
goCreateKeyPair(g, privKey) ==
    CASE g = "main" -> createKeyPair_main(privKey)
      [] g = "seed" -> createKeyPair_seed(privKey)
      [] g = "scrub" -> createKeyPair_scrub(privKey)
      [] OTHER -> createKeyPair_promise(privKey)

goCalculateAgreement(g, pubKey, privKey) ==
    CASE g \in {"main", "seed"} -> calculateAgreement_main(pubKey, privKey)
      [] g = "scrub" -> calculateAgreement_scrub(pubKey, privKey)
      [] g = "bigint" -> jsCalculateAgreement(pubKey, privKey)
      [] OTHER -> calculateAgreement_promise(pubKey, privKey)

goCalculateSignature(g, privKey, message) ==
    CASE g \in {"main", "seed"} -> calculateSignature_main(privKey, message)
      [] g = "scrub" -> calculateSignature_scrub(privKey, message)
      [] g = "bigint" -> jsCalculateSignature(privKey, message)
      [] OTHER -> calculateSignature_promise(privKey, message)

goVerifySignature(g, pubKey, msg, sig, isInit) ==
    CASE g \in {"main", "seed"} -> verifySignature_main(pubKey, msg, sig, isInit)
      [] g = "scrub" -> verifySignature_scrub(pubKey, msg, sig, isInit)
      [] g = "bigint" -> jsVerifySignature(pubKey, msg, sig, isInit)
      [] OTHER -> verifySignature_promise(pubKey, msg, sig, isInit)

\* a Go panic surfaces in JS as an exception
GoCrash == Throw("Go program has already exited")

\* { pubKey: Buffer.from(keys.pubKey), privKey: Buffer.from(keys.privKey) }
KeysToBuffers(keys) ==
    IF keys.type # "keypair" THEN Throw("TypeError")
    ELSE Ret(KeyPair(keys.pubKey, keys.privKey))

\* --- async wrapper, exports awaited (await global.goCrypto.f(...)) ---
Await(r) ==
    IF r.kind = "panic" THEN GoCrash
    ELSE IF r.kind = "rejected" THEN [kind |-> "throw", val |-> r.val]
    ELSE Ret(r.val)

createKeyPair_wasmAwait(g, privKey) ==
    LET v == validatePrivKey(privKey)
        out(keys) == IF keys.kind = "throw" THEN keys ELSE KeysToBuffers(keys.val)
    IN  IF v.kind = "throw" THEN v ELSE out(Await(goCreateKeyPair(g, privKey)))

calculateAgreement_wasmAwait(g, pubKey, privKey) ==
    LET v == validatePrivKey(privKey)
        out(shared) == IF shared.kind = "throw" THEN shared ELSE BufferFrom(shared.val)
    IN  IF v.kind = "throw" THEN v
        ELSE out(Await(goCalculateAgreement(g, pubKey, privKey)))

calculateSignature_wasmAwait(g, privKey, message) ==
    LET v == validatePrivKey(privKey)
        out(signature) ==
            IF signature.kind = "throw" THEN signature ELSE BufferFrom(signature.val)
    IN  IF v.kind = "throw" THEN v
        ELSE IF NoMessage(message) THEN Throw("Invalid message")
        ELSE out(Await(goCalculateSignature(g, privKey, message)))

verifySignature_wasmAwait(g, pubKey, msg, sig, isInit) ==
    Await(goVerifySignature(g, pubKey, msg, sig, isInit))

\* --- async wrapper, exports called synchronously ---
createKeyPair_wasmAsync(g, privKey) ==
    LET v == validatePrivKey(privKey)
        out(keys) == IF keys.kind = "panic" THEN GoCrash ELSE KeysToBuffers(keys.val)
    IN  IF v.kind = "throw" THEN v ELSE out(goCreateKeyPair(g, privKey))

calculateAgreement_wasmAsync(g, pubKey, privKey) ==
    LET v == validatePrivKey(privKey)
        out(shared) == IF shared.kind = "panic" THEN GoCrash ELSE BufferFrom(shared.val)
    IN  IF v.kind = "throw" THEN v ELSE out(goCalculateAgreement(g, pubKey, privKey))

calculateSignature_wasmAsync(g, privKey, message) ==
    LET v == validatePrivKey(privKey)
        out(signature) ==
            IF signature.kind = "panic" THEN GoCrash ELSE BufferFrom(signature.val)
    IN  IF v.kind = "throw" THEN v
        ELSE IF NoMessage(message) THEN Throw("Invalid message")
        ELSE out(goCalculateSignature(g, privKey, message))

verifySignature_wasmAsync(g, pubKey, msg, sig, isInit) ==
    LET out(r) == IF r.kind = "panic" THEN GoCrash ELSE Ret(r.val)
    IN  out(goVerifySignature(g, pubKey, msg, sig, isInit))

\* --- eager wrapper without result checks ---
createKeyPair_wasmRaw(g, privKey) ==
    LET v == validatePrivKey(privKey)
        out(keys) == IF keys.kind = "panic" THEN GoCrash ELSE KeysToBuffers(keys.val)
    IN  IF v.kind = "throw" THEN v ELSE out(goCreateKeyPair(g, privKey))

calculateAgreement_wasmRaw(g, pubKey, privKey) ==
    LET v == validatePrivKey(privKey)
        out(shared) == IF shared.kind = "panic" THEN GoCrash ELSE BufferFrom(shared.val)
    IN  IF v.kind = "throw" THEN v ELSE out(goCalculateAgreement(g, pubKey, privKey))

calculateSignature_wasmRaw(g, privKey, message) ==
    LET v == validatePrivKey(privKey)
        out(signature) ==
            IF signature.kind = "panic" THEN GoCrash ELSE BufferFrom(signature.val)
    IN  IF v.kind = "throw" THEN v
        ELSE IF NoMessage(message) THEN Throw("Invalid message")
        ELSE out(goCalculateSignature(g, privKey, message))

verifySignature_wasmRaw(g, pubKey, msg, sig, isInit) ==
    LET out(r) == IF r.kind = "panic" THEN GoCrash ELSE Ret(r.val)
    IN  out(goVerifySignature(g, pubKey, msg, sig, isInit))

\* --- eager wrapper that rethrows an Error returned by the module ---
createKeyPair_wasmEager(g, privKey) ==
    LET v == validatePrivKey(privKey)
        out(keys) ==
            IF keys.kind = "panic" THEN GoCrash
            ELSE IF keys.val.type = "Error" THEN [kind |-> "throw", val |-> keys.val]
            ELSE KeysToBuffers(keys.val)
    IN  IF v.kind = "throw" THEN v ELSE out(goCreateKeyPair(g, privKey))

calculateAgreement_wasmEager(g, pubKey, privKey) ==
    LET k == scrubPubKeyFormat(pubKey)
        v == validatePrivKey(privKey)
        out(shared) ==
            IF shared.kind = "panic" THEN GoCrash
            ELSE IF shared.val.type = "Error" THEN [kind |-> "throw", val |-> shared.val]
            ELSE BufferFrom(shared.val)
    IN  IF k.kind = "throw" THEN k
        ELSE IF v.kind = "throw" THEN v
        ELSE out(goCalculateAgreement(g, pubKey, privKey))

calculateSignature_wasmEager(g, privKey, message) ==
    LET v == validatePrivKey(privKey)
        out(signature) ==
            IF signature.kind = "panic" THEN GoCrash
            ELSE IF signature.val.type = "Error"
                 THEN [kind |-> "throw", val |-> signature.val]
            ELSE BufferFrom(signature.val)
    IN  IF v.kind = "throw" THEN v
        ELSE IF NoMessage(message) THEN Throw("Invalid message")
        ELSE out(goCalculateSignature(g, privKey, message))

verifySignature_wasmEager(g, pubKey, msg, sig, isInit) ==
    LET k == scrubPubKeyFormat(pubKey)
        out(result) ==
            IF result.kind = "panic" THEN GoCrash
            ELSE IF result.val.type = "Error" THEN [kind |-> "throw", val |-> result.val]
            ELSE Ret(result.val)
    IN  IF k.kind = "throw" THEN k
        ELSE IF NoMessage(msg) THEN Throw("Invalid message")
        ELSE IF BadSignature(sig) THEN Throw("Invalid signature")
        ELSE IF isInit THEN Ret(Bool(TRUE))
        ELSE out(goVerifySignature(g, pubKey, msg, sig, isInit))

\* --- eager wrapper that tests result.error (big-integer module) ---
calculateAgreement_wasmErr(g, pubKey, privKey) ==
    LET k == scrubPubKeyFormat(pubKey)
        v == validatePrivKey(privKey)
        out(result) ==
            IF result.kind = "panic" THEN GoCrash
            ELSE IF result.val.type = "errorRecord" THEN Throw(result.val.msg)
            ELSE BufferFrom(result.val)
    IN  IF k.kind = "throw" THEN k
        ELSE IF v.kind = "throw" THEN v
        ELSE out(goCalculateAgreement(g, U8(pubKey.bytes), U8(privKey.bytes)))

calculateSignature_wasmErr(g, privKey, message) ==
    LET v == validatePrivKey(privKey)
        out(result) ==
            IF result.kind = "panic" THEN GoCrash
            ELSE IF result.val.type = "errorRecord" THEN Throw(result.val.msg)
            ELSE BufferFrom(result.val)
    IN  IF v.kind = "throw" THEN v
        ELSE IF NoMessage(message) THEN Throw("Invalid message")
        ELSE out(goCalculateSignature(g, U8(privKey.bytes), U8(message.bytes)))

verifySignature_wasmErr(g, pubKey, msg, sig, isInit) ==
    LET k == scrubPubKeyFormat(pubKey)
        out(result) ==
            IF result.kind = "panic" THEN GoCrash
            ELSE IF result.val.type = "errorRecord" THEN Throw(result.val.msg)
            ELSE Ret(result.val)
    IN  IF k.kind = "throw" THEN k
        ELSE IF NoMessage(msg) THEN Throw("Invalid message")
        ELSE IF BadSignature(sig) THEN Throw("Invalid signature")
        ELSE IF isInit THEN Ret(Bool(TRUE))
        ELSE out(goVerifySignature(g, U8(pubKey.bytes), U8(msg.bytes), U8(sig.bytes), isInit))

\* result.error / result.pubKey of the value the big-integer module returned
createKeyPair_wasmErr(privKey, result) ==
    LET v == validatePrivKey(privKey)
    IN  IF v.kind = "throw" THEN v
        ELSE IF result.kind = "panic" THEN GoCrash
        ELSE IF result.val.type = "errorRecord" THEN Throw(result.val.msg)
        ELSE Ret(KeyPair(result.val.pubKey, result.val.privKey))

Backends ==
    {[js |-> j, go |-> "none"] :
        j \in {"curve25519js", "tweetnacl", "noble", "noble2", "stablelib", "worker"}}
    \cup {[js |-> "wasmAwait", go |-> "promise"]}
    \cup {[js |-> j, go |-> g] : j \in {"wasmAsync", "wasmEager", "wasmRaw"},
                                  g \in {"main", "seed", "scrub"}}
    \cup {[js |-> "wasmErr", go |-> "bigint"]}

\* exports.createKeyPair of every backend but the big-integer one, whose
\* call runs the redraw loop (actions LoopReturn, LoopRedraw, LoopRandFail)
createKeyPair(b, privKey) ==
    CASE b.js = "curve25519js" -> createKeyPair_curve25519js(privKey)
      [] b.js = "tweetnacl" -> createKeyPair_tweetnacl(privKey)
      [] b.js \in {"noble", "noble2"} -> createKeyPair_noble(privKey)
      [] b.js = "stablelib" -> createKeyPair_stablelib(privKey)
      [] b.js = "worker" -> runInWorker(createKeyPair_worker(privKey))
      [] b.js = "wasmAwait" -> createKeyPair_wasmAwait(b.go, privKey)
      [] b.js = "wasmAsync" -> createKeyPair_wasmAsync(b.go, privKey)
      [] b.js = "wasmEager" -> createKeyPair_wasmEager(b.go, privKey)
      [] b.js = "wasmRaw" -> createKeyPair_wasmRaw(b.go, privKey)

\* exports.generateKeyPair(): seed is what the random source delivers, ok
\* whether rand.Read succeeds (crypto.randomBytes of Node does not fail).
\* The Go exports build the response of their createKeyPair from the seed.
goGenerateKeyPair(g, seed, ok) ==
    CASE g = "promise" ->
            IF ok THEN createKeyPair_promise(U8(seed))
            ELSE GoReject("Failed to generate random bytes")
      [] g = "scrub" ->
            IF ok THEN createKeyPair_scrub(U8(seed))
            ELSE GoVal(ErrObj("failed to generate random bytes for key pair"))
      [] OTHER ->
            IF ok THEN goCreateKeyPair(g, U8(seed))
            ELSE GoVal(ErrObj("Failed to generate random bytes"))

\* exports.generateKeyPair of every backend but the big-integer one, whose
\* module runs the loop of its createKeyPair on the drawn seed
generateKeyPair(b, seed, ok) ==
    LET \* fullPrivKey.subarray(0, 32)
        first32(r) ==
            IF r.kind = "return"
            THEN Ret(KeyPair(r.val.pubKey, SubSeq(r.val.privKey, 1, KeyLen)))
            ELSE r
        awaited(keys) == IF keys.kind = "throw" THEN keys ELSE KeysToBuffers(keys.val)
        called(keys) == IF keys.kind = "panic" THEN GoCrash ELSE KeysToBuffers(keys.val)
        checked(keys) ==
            IF keys.kind = "panic" THEN GoCrash
            ELSE IF keys.val.type = "Error" THEN [kind |-> "throw", val |-> keys.val]
            ELSE KeysToBuffers(keys.val)
    IN  CASE b.js = "wasmAwait" -> first32(awaited(Await(goGenerateKeyPair(b.go, seed, ok))))
          [] b.js \in {"wasmAsync", "wasmRaw"} ->
                first32(called(goGenerateKeyPair(b.go, seed, ok)))
          [] b.js = "wasmEager" -> checked(goGenerateKeyPair(b.go, seed, ok))
          [] OTHER -> createKeyPair(b, Buf(seed))

calculateAgreement(b, pubKey, privKey) ==
    CASE b.js = "curve25519js" -> calculateAgreement_curve25519js(pubKey, privKey)
      [] b.js = "tweetnacl" -> calculateAgreement_tweetnacl(pubKey, privKey)
      [] b.js = "noble" -> calculateAgreement_noble(pubKey, privKey)
      [] b.js = "noble2" -> calculateAgreement_noble2(pubKey, privKey)
      [] b.js = "stablelib" -> calculateAgreement_stablelib(pubKey, privKey)
      [] b.js = "worker" -> runInWorker(calculateAgreement_worker(pubKey, privKey))
      [] b.js = "wasmAwait" -> calculateAgreement_wasmAwait(b.go, pubKey, privKey)
      [] b.js = "wasmAsync" -> calculateAgreement_wasmAsync(b.go, pubKey, privKey)
      [] b.js = "wasmEager" -> calculateAgreement_wasmEager(b.go, pubKey, privKey)
      [] b.js = "wasmRaw" -> calculateAgreement_wasmRaw(b.go, pubKey, privKey)
      [] OTHER -> calculateAgreement_wasmErr(b.go, pubKey, privKey)

calculateSignature(b, privKey, message) ==
    CASE b.js = "curve25519js" -> calculateSignature_curve25519js(privKey, message)
      [] b.js = "tweetnacl" -> calculateSignature_tweetnacl(privKey, message)
      [] b.js \in {"noble", "noble2"} -> calculateSignature_noble(privKey, message)
      [] b.js = "stablelib" -> calculateSignature_stablelib(privKey, message)
      [] b.js = "worker" -> runInWorker(calculateSignature_worker(privKey, message))
      [] b.js = "wasmAwait" -> calculateSignature_wasmAwait(b.go, privKey, message)
      [] b.js = "wasmAsync" -> calculateSignature_wasmAsync(b.go, privKey, message)
      [] b.js = "wasmEager" -> calculateSignature_wasmEager(b.go, privKey, message)
      [] b.js = "wasmRaw" -> calculateSignature_wasmRaw(b.go, privKey, message)
      [] OTHER -> calculateSignature_wasmErr(b.go, privKey, message)

verifySignature(b, pubKey, msg, sig, isInit) ==
    CASE b.js = "curve25519js" -> verifySignature_curve25519js(pubKey, msg, sig, isInit)
      [] b.js = "tweetnacl" -> verifySignature_tweetnacl(pubKey, msg, sig, isInit)
      [] b.js = "noble" -> verifySignature_noble(pubKey, msg, sig, isInit)
      [] b.js = "noble2" -> verifySignature_noble2(pubKey, msg, sig, isInit)
      [] b.js = "stablelib" -> verifySignature_stablelib(pubKey, msg, sig, isInit)
      [] b.js = "worker" -> verifySignature_dispatch(pubKey, msg, sig, isInit)
      [] b.js = "wasmAwait" -> verifySignature_wasmAwait(b.go, pubKey, msg, sig, isInit)
      [] b.js = "wasmAsync" -> verifySignature_wasmAsync(b.go, pubKey, msg, sig, isInit)
      [] b.js = "wasmEager" -> verifySignature_wasmEager(b.go, pubKey, msg, sig, isInit)
      [] b.js = "wasmRaw" -> verifySignature_wasmRaw(b.go, pubKey, msg, sig, isInit)
      [] OTHER -> verifySignature_wasmErr(b.go, pubKey, msg, sig, isInit)

\* whether call c of backend b reaches its call into the cryptographic backend
\* (a library function, a sodium function inside the worker, an export of the
\* Go module): the checks the wrapper makes before that call all pass
EntersBackend(b, c) ==
    LET seedOk == validatePrivKey(c.privKey).kind # "throw"
        keyOk  == scrubPubKeyFormat(c.pubKey).kind # "throw"
        msgOk  == ~ NoMessage(c.msg)
        sigOk  == ~ BadSignature(c.sig)
        unchecked == b.js \in {"wasmAwait", "wasmAsync", "wasmRaw"}
    IN  CASE c.op = "createKeyPair" -> seedOk
          [] c.op = "calculateAgreement" -> seedOk /\ (unchecked \/ keyOk)
          [] c.op = "calculateSignature" -> seedOk /\ msgOk
          [] c.op = "verifySignature" ->
                unchecked \/ (keyOk /\ msgOk /\ sigOk /\ ~ c.isInit)
          [] OTHER -> FALSE

\* ------------------------------------------------------------------------
\* Inputs of the calls
\* ------------------------------------------------------------------------
FirstSeed == SeedBytes(NthProper(1, 1))

\* private keys: the valid seeds, and the malformed ones validatePrivKey names
SeedInputs ==
    {Buf(s) : s \in ValidSeeds}
    \cup {Undefined, U8(FirstSeed), Buf(<<>>), Buf(Zeros(KeyLen - 1)), Buf(Zeros(KeyLen + 1))}

\* public keys: tagged keys of both kinds, an untagged key, a key whose
\* coordinate is not below the field prime, and malformed ones
KeyInputs ==
    {Buf(FormatPubKey(EdPublicKey(s))) : s \in ValidSeeds}
    \cup {Buf(FormatPubKey(X25519Base(s))) : s \in ValidSeeds}
    \cup {Buf(EdPublicKey(FirstSeed)), Buf(FormatPubKey(LE32(1))),
          Buf(FormatPubKey(LE32(FieldP + MontBaseU))),
          Undefined, U8(FormatPubKey(EdPublicKey(FirstSeed))), Buf(<<>>),
          Buf(Zeros(KeyLen - 1)), Buf(<<KeyTag + 1>> \o EdPublicKey(FirstSeed)),
          Buf(Zeros(TaggedKeyLen + 1))}

MsgInputs == {Buf(m) : m \in Messages} \cup {Undefined, Buf(<<>>)}

\* signatures: what the backends produce, and malformed ones
SigInputs ==
    {Buf(EdSign(FirstSeed, m)) : m \in Messages}
    \cup {Buf(XSign(FirstSeed, m)) : m \in Messages}
    \cup {Undefined, Buf(Zeros(SigLen)), Buf(Zeros(SigLen - 1)), Buf(Zeros(SigLen + 1))}

\* the versions of the key decoder
ScrubVersions == {"scrubPubKeyFormat", "scrubPubKeyFormat_noble2", "scrubPubKey",
                  "scrubPubKeyFormat_go"}

\* a decoder applied to a JS value; the two Go decoders take the byte slice
\* copied out of the value
scrub(version, pubKey) ==
    CASE version = "scrubPubKeyFormat" -> scrubPubKeyFormat(pubKey)
      [] version = "scrubPubKeyFormat_noble2" -> scrubPubKeyFormat_noble2(pubKey)
      [] version = "scrubPubKey" -> scrubPubKey(pubKey.bytes)
      [] OTHER -> scrubPubKeyFormat_go(pubKey.bytes)

\* ------------------------------------------------------------------------
\* State
\* ------------------------------------------------------------------------
VARIABLES
    backend,   \* the backend each party has loaded
    seed,      \* each party's 32-byte seed
    kp,        \* outcome of the party's createKeyPair(seed)
    sg,        \* the party's calculateSignature(seed, msg): message and outcome
    vr,        \* outcome of verifySignature(own pubKey, msg, own signature, false)
    ss,        \* outcome of calculateAgreement(peer's pubKey, seed)
    last,      \* the call made with arbitrary arguments and its outcome
    loop,      \* the createKeyPair loop of the big-integer module, while it runs
    wasm,      \* the initialisation of the WebAssembly module and the callers waiting on it
    worker     \* the worker thread of a runInWorker call and the call's promise

vars == <<backend, seed, kp, sg, vr, ss, last, loop, wasm, worker>>

Idle == [kind |-> "idle", val |-> Undefined]

Running == [kind |-> "running", val |-> Undefined]

Call(op, pubKey, privKey, msg, sig, isInit, out) ==
    [op |-> op, pubKey |-> pubKey, privKey |-> privKey, msg |-> msg, sig |-> sig,
     isInit |-> isInit, out |-> out]

NoCall == Call("none", Undefined, Undefined, Undefined, Undefined, FALSE, Idle)

\* pass is the outcome of the loop's pass on the current seed, draws the
\* outcome of a pass on each seed the random source can deliver
NoLoop ==
    [on |-> FALSE, party |-> "A", dest |-> "last", privKey |-> Undefined, seed |-> <<>>,
     pass |-> Idle, draws |-> <<>>]

\* the loop entered by party x with the seed of privKey
EnterLoop(x, dest, privKey) ==
    [on |-> TRUE, party |-> x, dest |-> dest, privKey |-> privKey, seed |-> privKey.bytes,
     pass |-> createKeyPair_go_pass(privKey.bytes),
     draws |-> [s \in ValidSeeds |-> createKeyPair_go_pass(s)]]

\* the module variables of the WebAssembly loaders (wasmModulePromise,
\* wasmInitialized), the initialisation attempts started so far with the
\* outcome of the latest one, and each caller's position in its call;
\* here before any loader has run
NoWasm ==
    [version |-> "none", promise |-> "null", initialized |-> FALSE, attempts |-> 0,
     outcome |-> "none", pc |-> [x \in Party |-> "idle"], calls |-> [x \in Party |-> 0]]

\* the worker thread of a runInWorker call and the promise the call returned:
\* the thread's position, its workerData, the messages posted and not yet
\* received, their count, the exit code (-1 while the thread lives), the
\* state of the promise, and in script the messages the script's body posts
\* for this workerData; here before any call
NoWorker ==
    [pc |-> "none", task |-> "none",
     args |-> [pubKey |-> Undefined, privKey |-> Undefined, msg |-> Undefined,
               sig |-> Undefined],
     script |-> <<>>, port |-> <<>>, posted |-> 0, code |-> -1, promise |-> Idle]

Peer(x) == IF x = "A" THEN "B" ELSE "A"

Done(o) == o.kind \in {"return", "throw"}

InitRegisters ==
    /\ kp = [x \in Party |-> Idle]
    /\ sg = [x \in Party |-> [msg |-> <<>>, out |-> Idle]]
    /\ vr = [x \in Party |-> Idle]
    /\ ss = [x \in Party |-> Idle]
    /\ last = NoCall
    /\ loop = NoLoop
    /\ worker = NoWorker

\* one backend loaded, calls with arbitrary arguments
Init ==
    /\ backend \in {[x \in Party |-> b] : b \in Backends}
    /\ seed = [x \in Party |-> FirstSeed]
    /\ InitRegisters
    /\ wasm = NoWasm

\* both parties run the same backend, each with its own seed
ProtoInit ==
    /\ backend \in {[x \in Party |-> b] : b \in Backends}
    /\ seed \in [Party -> ValidSeeds]
    /\ InitRegisters
    /\ wasm = NoWasm

\* the parties run any two backends on the same seed
MixedInit ==
    /\ backend \in [Party -> Backends]
    /\ seed \in {[x \in Party |-> s] : s \in ValidSeeds}
    /\ InitRegisters
    /\ wasm = NoWasm

\* ------------------------------------------------------------------------
\* Calls with arbitrary arguments
\* ------------------------------------------------------------------------
\* the party that makes them
Caller == "A"

CanCall == last.op = "none" /\ ~ loop.on

\* exports.createKeyPair(privKey); with the big-integer module the call
\* enters the module's loop once the wrapper has validated the key
CallCreateKeyPair(x, privKey) ==
    /\ CanCall
    /\ IF backend[x].js = "wasmErr"
       THEN IF validatePrivKey(privKey).kind = "throw"
            THEN /\ last' = Call("createKeyPair", Undefined, privKey, Undefined, Undefined,
                                 FALSE, validatePrivKey(privKey))
                 /\ loop' = loop
            ELSE /\ last' = Call("createKeyPair", Undefined, privKey, Undefined, Undefined,
                                 FALSE, Running)
                 /\ loop' = EnterLoop(x, "last", privKey)
       ELSE /\ last' = Call("createKeyPair", Undefined, privKey, Undefined, Undefined,
                            FALSE, createKeyPair(backend[x], privKey))
            /\ loop' = loop
    /\ UNCHANGED <<worker, wasm, backend, seed, kp, sg, vr, ss>>

\* exports.generateKeyPair(); the call records the seed that was drawn as
\* its private key. The big-integer module enters its loop with that seed.
CallGenerateKeyPair(x, drawn, ok) ==
    /\ CanCall
    /\ IF backend[x].js = "wasmErr"
       THEN IF ok
            THEN /\ last' = Call("generateKeyPair", Undefined, Buf(drawn), Undefined,
                                 Undefined, FALSE, Running)
                 /\ loop' = EnterLoop(x, "last", Buf(drawn))
            ELSE /\ last' = Call("generateKeyPair", Undefined, Buf(drawn), Undefined,
                                 Undefined, FALSE,
                                 createKeyPair_wasmErr(Buf(drawn),
                                                       jsResult(Throw("rand.Read failed"))))
                 /\ loop' = loop
       ELSE /\ last' = Call("generateKeyPair", Undefined, Buf(drawn), Undefined, Undefined,
                            FALSE, generateKeyPair(backend[x], drawn, ok))
            /\ loop' = loop
    /\ UNCHANGED <<worker, wasm, backend, seed, kp, sg, vr, ss>>

CallCalculateAgreement(x, pubKey, privKey) ==
    /\ CanCall
    /\ last' = Call("calculateAgreement", pubKey, privKey, Undefined, Undefined, FALSE,
                    calculateAgreement(backend[x], pubKey, privKey))
    /\ UNCHANGED <<worker, wasm, backend, seed, kp, sg, vr, ss, loop>>

CallCalculateSignature(x, privKey, message) ==
    /\ CanCall
    /\ last' = Call("calculateSignature", Undefined, privKey, message, Undefined, FALSE,
                    calculateSignature(backend[x], privKey, message))
    /\ UNCHANGED <<worker, wasm, backend, seed, kp, sg, vr, ss, loop>>

CallVerifySignature(x, pubKey, msg, sig, isInit) ==
    /\ CanCall
    /\ last' = Call("verifySignature", pubKey, Undefined, msg, sig, isInit,
                    verifySignature(backend[x], pubKey, msg, sig, isInit))
    /\ UNCHANGED <<worker, wasm, backend, seed, kp, sg, vr, ss, loop>>

\* a key decoder applied to a key; the Go decoders receive byte slices only
CallScrub(version, pubKey) ==
    /\ CanCall
    /\ version \in {"scrubPubKey", "scrubPubKeyFormat_go"} => IsBytes(pubKey)
    /\ last' = Call(version, pubKey, Undefined, Undefined, Undefined, FALSE,
                    scrub(version, pubKey))
    /\ UNCHANGED <<worker, wasm, backend, seed, kp, sg, vr, ss, loop>>

\* Edwards encodings given to the converter: every value of the low byte,
\* the same with the sign bit set, a value with a second byte, wrong lengths
ConvertInputs ==
    {LE32(y) : y \in 0..255}
    \cup {[LE32(y) EXCEPT ![KeyLen] = 128] : y \in 0..255}
    \cup {[LE32(3) EXCEPT ![2] = 1], Zeros(KeyLen - 1), Zeros(KeyLen + 1)}

\* ed25519ToX25519PublicKey applied to a byte slice
CallConvert(edPubKey) ==
    /\ CanCall
    /\ last' = Call("ed25519ToX25519PublicKey", U8(edPubKey), Undefined, Undefined,
                    Undefined, FALSE, ed25519ToX25519PublicKey(edPubKey))
    /\ UNCHANGED <<worker, wasm, backend, seed, kp, sg, vr, ss, loop>>

\* the caller has consumed the outcome
Return ==
    /\ Done(last.out)
    /\ last' = NoCall
    /\ UNCHANGED <<worker, wasm, backend, seed, kp, sg, vr, ss, loop>>

\* ------------------------------------------------------------------------
\* The createKeyPair loop of the big-integer module
\* ------------------------------------------------------------------------
\* the outcome of the call that entered the loop goes where the call came from
Deliver(out) ==
    /\ loop' = NoLoop
    /\ IF loop.dest = "last"
       THEN last' = [last EXCEPT !.out = out] /\ kp' = kp
       ELSE kp' = [kp EXCEPT ![loop.party] = out] /\ last' = last
    /\ UNCHANGED <<worker, wasm, backend, seed, sg, vr, ss>>

\* the public key of the current seed converts: return the pair
LoopReturn ==
    /\ loop.on
    /\ loop.pass.kind = "return"
    /\ Deliver(createKeyPair_wasmErr(loop.privKey, jsResult(loop.pass)))

\* it does not convert: rand.Read(seed) draws a fresh seed
LoopRedraw ==
    /\ loop.on
    /\ loop.pass.kind = "redraw"
    /\ \E s \in DOMAIN loop.draws :
            loop' = [loop EXCEPT !.seed = s, !.pass = loop.draws[s]]
    /\ UNCHANGED <<worker, wasm, backend, seed, kp, sg, vr, ss, last>>

\* it does not convert and rand.Read fails
LoopRandFail ==
    /\ loop.on
    /\ loop.pass.kind = "redraw"
    /\ Deliver(createKeyPair_wasmErr(loop.privKey, jsResult(Throw("rand.Read failed"))))

\* ------------------------------------------------------------------------
\* The protocol run: each party creates its key pair from its seed, signs a
\* message, has the signature verified and then agrees on a secret with its
\* peer, in that order
\* ------------------------------------------------------------------------
CreateKeyPair(x) ==
    /\ kp[x].kind = "idle" /\ ~ loop.on
    /\ IF backend[x].js = "wasmErr"
       THEN /\ kp' = [kp EXCEPT ![x] = Running]
            /\ loop' = EnterLoop(x, "kp", Buf(seed[x]))
       ELSE /\ kp' = [kp EXCEPT ![x] = createKeyPair(backend[x], Buf(seed[x]))]
            /\ loop' = loop
    /\ UNCHANGED <<worker, wasm, backend, seed, sg, vr, ss, last>>

Sign(x, m) ==
    /\ sg[x].out.kind = "idle" /\ ~ loop.on
    /\ Done(kp[x])
    /\ sg' = [sg EXCEPT ![x] = [msg |-> m,
                                out |-> calculateSignature(backend[x], Buf(seed[x]), Buf(m))]]
    /\ UNCHANGED <<worker, wasm, backend, seed, kp, vr, ss, last, loop>>

Verify(x) ==
    /\ vr[x].kind = "idle" /\ ~ loop.on
    /\ kp[x].kind = "return" /\ kp[x].val.type = "keypair"
    /\ sg[x].out.kind = "return"
    /\ vr' = [vr EXCEPT ![x] = verifySignature(backend[x], Buf(kp[x].val.pubKey),
                                               Buf(sg[x].msg), sg[x].out.val, FALSE)]
    /\ UNCHANGED <<worker, wasm, backend, seed, kp, sg, ss, last, loop>>

Agree(x) ==
    /\ ss[x].kind = "idle" /\ ~ loop.on
    /\ Done(vr[x])
    /\ kp[Peer(x)].kind = "return" /\ kp[Peer(x)].val.type = "keypair"
    /\ ss' = [ss EXCEPT ![x] = calculateAgreement(backend[x], Buf(kp[Peer(x)].val.pubKey),
                                                  Buf(seed[x]))]
    /\ UNCHANGED <<worker, wasm, backend, seed, kp, sg, vr, last, loop>>

\* ------------------------------------------------------------------------
\* Specifications
\* ------------------------------------------------------------------------
Next ==
    \/ \E privKey \in SeedInputs : CallCreateKeyPair(Caller, privKey)
    \/ \E pubKey \in KeyInputs, privKey \in SeedInputs :
            CallCalculateAgreement(Caller, pubKey, privKey)
    \/ \E privKey \in SeedInputs, message \in MsgInputs :
            CallCalculateSignature(Caller, privKey, message)
    \/ \E pubKey \in KeyInputs, msg \in MsgInputs, sig \in SigInputs, isInit \in BOOLEAN :
            CallVerifySignature(Caller, pubKey, msg, sig, isInit)
    \/ \E version \in ScrubVersions, pubKey \in KeyInputs : CallScrub(version, pubKey)
    \/ \E edPubKey \in ConvertInputs : CallConvert(edPubKey)
    \/ \E s \in ValidSeeds, ok \in BOOLEAN : CallGenerateKeyPair(Caller, s, ok)
    \/ Return
    \/ LoopReturn
    \/ LoopRedraw
    \/ LoopRandFail

Spec == Init /\ [][Next]_vars

\* the big-integer module loaded
LoopInit == Init /\ backend[Caller].go = "bigint"

\* the calls of Spec to the big-integer module under the scheduling of the
\* loop: a pass whose public key converts returns (the Go function does not
\* stop between two passes), and the random source, asked again and again,
\* eventually delivers a seed whose public key converts
LoopSpec ==
    /\ LoopInit
    /\ [][Next]_vars
    /\ WF_vars(LoopReturn)
    /\ SF_vars(LoopRedraw /\ loop'.pass.kind = "return")

ProtoNext ==
    \/ \E x \in Party : CreateKeyPair(x)
    \/ \E x \in Party, m \in Messages : Sign(x, m)
    \/ \E x \in Party : Verify(x)
    \/ \E x \in Party : Agree(x)
    \/ LoopReturn
    \/ LoopRedraw
    \/ LoopRandFail

ProtoSpec == ProtoInit /\ [][ProtoNext]_vars

MixedNext ==
    \/ \E x \in Party : CreateKeyPair(x)
    \/ LoopReturn
    \/ LoopRedraw
    \/ LoopRandFail

MixedSpec == MixedInit /\ [][MixedNext]_vars

\* ------------------------------------------------------------------------
\* Initialisation of the WebAssembly module
\* ------------------------------------------------------------------------
\* calls each party makes at most
MaxInitCalls == 2

\* the module is loaded: the promise-based and the lazy version have run
\* nothing yet; the eager version has run initWasmSync() once, and a failure
\* there fails the load of the module (no export exists to call)
WasmInit ==
    /\ backend = [x \in Party |-> [js |-> "wasmAwait", go |-> "promise"]]
    /\ seed = [x \in Party |-> FirstSeed]
    /\ InitRegisters
    /\ wasm \in {[NoWasm EXCEPT !.version = v] : v \in {"loadWasm", "initWasm"}}
               \cup {[NoWasm EXCEPT !.version = "initWasmSync", !.attempts = 1,
                                    !.initialized = ok,
                                    !.outcome = IF ok THEN "ok" ELSE "fail"]
                     : ok \in BOOLEAN}

\* party c calls an export, which starts with `await loadWasm()`, with
\* initWasm(), or with the test of wasmInitialized; ok tells whether the
\* synchronous part of an attempt (reading and instantiating main.wasm)
\* succeeds
EnterWasm(c, ok) ==
    /\ wasm.pc[c] = "idle"
    /\ wasm.calls[c] < MaxInitCalls
    /\ wasm.version = "initWasmSync" => wasm.initialized
    /\ LET entered == [wasm EXCEPT !.calls[c] = @ + 1]
       IN  CASE wasm.version = "loadWasm" ->
                  IF wasm.promise # "null"
                  THEN wasm' = [entered EXCEPT !.pc[c] = "await"]
                  ELSE wasm' = [entered EXCEPT !.pc[c] = "await",
                                               !.attempts = @ + 1,
                                               !.outcome = IF ok THEN "none" ELSE "fail",
                                               !.promise = IF ok THEN "pending" ELSE "rejected"]
              [] wasm.version = "initWasm" ->
                  IF wasm.initialized
                  THEN wasm' = [entered EXCEPT !.pc[c] = "ok"]
                  ELSE wasm' = [entered EXCEPT !.pc[c] = IF ok THEN "ok" ELSE "throw",
                                               !.attempts = @ + 1,
                                               !.outcome = IF ok THEN "ok" ELSE "fail",
                                               !.initialized = ok]
              [] OTHER ->
                  wasm' = [entered EXCEPT !.pc[c] = IF wasm.initialized THEN "ok" ELSE "throw"]
    /\ UNCHANGED <<worker, backend, seed, kp, sg, vr, ss, last, loop>>

\* WebAssembly.instantiate settles: the executor resolves or rejects the
\* promise loadWasm() has stored
SettleWasm(ok) ==
    /\ wasm.promise = "pending"
    /\ wasm' = [wasm EXCEPT !.promise = IF ok THEN "resolved" ELSE "rejected",
                            !.outcome = IF ok THEN "ok" ELSE "fail"]
    /\ UNCHANGED <<worker, backend, seed, kp, sg, vr, ss, last, loop>>

\* a party waiting in `await loadWasm()` continues once the promise is settled
ResumeWasm(c) ==
    /\ wasm.pc[c] = "await"
    /\ wasm.promise \in {"resolved", "rejected"}
    /\ wasm' = [wasm EXCEPT !.pc[c] = IF wasm.promise = "resolved" THEN "ok" ELSE "throw"]
    /\ UNCHANGED <<worker, backend, seed, kp, sg, vr, ss, last, loop>>

\* the party's call is over; it may call again
ExitWasm(c) ==
    /\ wasm.pc[c] \in {"ok", "throw"}
    /\ wasm' = [wasm EXCEPT !.pc[c] = "idle"]
    /\ UNCHANGED <<worker, backend, seed, kp, sg, vr, ss, last, loop>>

WasmNext ==
    \/ \E c \in Party, ok \in BOOLEAN : EnterWasm(c, ok)
    \/ \E ok \in BOOLEAN : SettleWasm(ok)
    \/ \E c \in Party : ResumeWasm(c)
    \/ \E c \in Party : ExitWasm(c)

WasmSpec == WasmInit /\ [][WasmNext]_vars

\* ------------------------------------------------------------------------
\* The worker thread of runInWorker
\* ------------------------------------------------------------------------
\* the names runInWorker is called with by the exports, and one the task
\* table does not hold
TaskNames ==
    {"createKeyPair", "calculateAgreement", "calculateSignature", "verifySignature",
     "noSuchTask"}

\* a worker script without the try/catch: a task that throws posts nothing
workerMain_uncaught(task, args) ==
    LET posted(outcome) == IF outcome.kind = "throw" THEN <<>> ELSE <<outcome.val>>
    IN  posted(CASE task = "createKeyPair" -> createKeyPair_worker(args.privKey)
                 [] task = "calculateAgreement" ->
                        calculateAgreement_worker(args.pubKey, args.privKey)
                 [] task = "calculateSignature" ->
                        calculateSignature_worker(args.privKey, args.msg)
                 [] task = "verifySignature" ->
                        verifySignature_worker(args.pubKey, args.msg, args.sig)
                 [] OTHER -> Throw("tasks[workerData.task] is not a function"))

\* the body of the worker script: the messages it posts for its workerData.
\* tasks[workerData.task] of a name the table does not hold is undefined, and
\* calling it throws a TypeError inside the try block
workerMain(task, args) ==
    LET posted(outcome) ==
            IF outcome.kind = "throw" THEN <<ErrRec(outcome.val.msg)>>
            ELSE <<outcome.val>>
    IN  posted(CASE task = "createKeyPair" -> createKeyPair_worker(args.privKey)
                 [] task = "calculateAgreement" ->
                        calculateAgreement_worker(args.pubKey, args.privKey)
                 [] task = "calculateSignature" ->
                        calculateSignature_worker(args.privKey, args.msg)
                 [] task = "verifySignature" ->
                        verifySignature_worker(args.pubKey, args.msg, args.sig)
                 [] OTHER -> Throw("tasks[workerData.task] is not a function"))

\* the worker backend loaded, no call made yet
WorkerInit ==
    /\ backend = [x \in Party |-> [js |-> "worker", go |-> "none"]]
    /\ seed = [x \in Party |-> FirstSeed]
    /\ InitRegisters
    /\ wasm = NoWasm

\* runInWorker(task, args): a promise is made and a worker started on
\* workerData { task, args }; a task reads the fields of args it names
RunInWorker(task, pubKey, privKey, msg, sig) ==
    /\ worker.pc = "none"
    /\ task \in {"createKeyPair", "calculateSignature", "noSuchTask"} => pubKey = Undefined
    /\ task \in {"verifySignature", "noSuchTask"} => privKey = Undefined
    /\ task \in {"createKeyPair", "calculateAgreement", "noSuchTask"} => msg = Undefined
    /\ task # "verifySignature" => sig = Undefined
    /\ worker' = [NoWorker EXCEPT !.pc = "started", !.task = task,
                                  !.args = [pubKey |-> pubKey, privKey |-> privKey,
                                            msg |-> msg, sig |-> sig],
                                  !.script = workerMain(task, [pubKey |-> pubKey,
                                                 privKey |-> privKey, msg |-> msg,
                                                 sig |-> sig]),
                                  !.promise = Running]
    /\ UNCHANGED <<wasm, backend, seed, kp, sg, vr, ss, last, loop>>

\* the worker script runs to its end and posts what its body posts
WorkerScript ==
    /\ worker.pc = "started"
    /\ worker' = [worker EXCEPT !.pc = "ended", !.port = worker.script,
                                !.posted = Len(worker.script)]
    /\ UNCHANGED <<wasm, backend, seed, kp, sg, vr, ss, last, loop>>

\* the script fails outside its try block (a module it requires does not
\* load): the worker's "error" event rejects the promise
WorkerError ==
    /\ worker.pc = "started"
    /\ worker' = [worker EXCEPT !.pc = "failed",
                                !.promise = Throw("Cannot find module")]
    /\ UNCHANGED <<wasm, backend, seed, kp, sg, vr, ss, last, loop>>

\* the "message" event: resolve(message); a settled promise stays as it is
WorkerMessage ==
    /\ worker.port # <<>>
    /\ worker' = [worker EXCEPT !.port = Tail(@),
                                !.promise = IF @ = Running THEN Ret(Head(worker.port))
                                            ELSE @]
    /\ UNCHANGED <<wasm, backend, seed, kp, sg, vr, ss, last, loop>>

\* the "exit" event: code 0 after the script's end, 1 after its failure, and
\* a code other than 0 rejects the promise
WorkerExit ==
    /\ worker.pc \in {"ended", "failed"}
    /\ LET exit(code) ==
               worker' = [worker EXCEPT !.pc = "exited", !.code = code,
                              !.promise = IF code # 0 /\ @ = Running
                                          THEN Throw("Worker stopped with exit code 1")
                                          ELSE @]
       IN  exit(IF worker.pc = "failed" THEN 1 ELSE 0)
    /\ UNCHANGED <<wasm, backend, seed, kp, sg, vr, ss, last, loop>>

WorkerNext ==
    \/ \E task \in TaskNames, pubKey \in KeyInputs \cup {Undefined},
          privKey \in SeedInputs, msg \in MsgInputs, sig \in SigInputs :
            RunInWorker(task, pubKey, privKey, msg, sig)
    \/ WorkerScript
    \/ WorkerError
    \/ WorkerMessage
    \/ WorkerExit

\* the worker thread runs its script, the main thread's event loop delivers
\* the posted messages and the exit of a worker whose script has ended
WorkerSpec ==
    /\ WorkerInit
    /\ [][WorkerNext]_vars
    /\ WF_vars(WorkerScript)
    /\ WF_vars(WorkerMessage)
    /\ WF_vars(WorkerExit)

\* ------------------------------------------------------------------------
\* Properties
\* ------------------------------------------------------------------------
ReturnedKeys(x) == kp[x].kind = "return" /\ kp[x].val.type = "keypair"

\* C1 (MixedSpec): two parties that run any two backends on the same seed
\* get the same 33-byte public key from createKeyPair.
C1_SamePubKeyInEveryBackend ==
    (ReturnedKeys("A") /\ ReturnedKeys("B")) => kp["A"].val.pubKey = kp["B"].val.pubKey

\* the tweetnacl and the noble backend disagree on the public key of a seed
C1_TweetnaclAndNobleDiffer ==
    /\ backend["A"].js = "tweetnacl" /\ backend["B"].js = "noble"
    /\ ReturnedKeys("A") /\ ReturnedKeys("B")
    /\ kp["A"].val.pubKey # kp["B"].val.pubKey

\* C2 (ProtoSpec): verifying, with isInit false, the signature a party made
\* with its seed against the public key createKeyPair gave it for that seed
\* returns true.
C2_SignVerifyRoundTrip ==
    \A x \in Party : vr[x].kind # "idle" => vr[x] = Ret(Bool(TRUE))

\* with tweetnacl the party's own signature does not verify
C2_TweetnaclRejectsOwnSignature ==
    backend["A"].js = "tweetnacl" /\ vr["A"] = Ret(Bool(FALSE))

\* C3 (ProtoSpec): once both parties have computed their agreement from the
\* peer's public key and their own seed, both hold the same shared secret.
C3_AgreementSymmetric ==
    (Done(ss["A"]) /\ Done(ss["B"])) => (ss["A"].kind = "return" /\ ss["A"] = ss["B"])

\* with noble two parties with different seeds end with different secrets
C3_NobleSecretsDiffer ==
    /\ backend["A"].js = "noble"
    /\ ss["A"].kind = "return" /\ ss["B"].kind = "return"
    /\ ss["A"] # ss["B"]

\* C4 (ProtoSpec): two createKeyPair calls on the same seed, in the same
\* backend, return the same public key.
C4_CreateKeyPairDeterministic ==
    (seed["A"] = seed["B"] /\ ReturnedKeys("A") /\ ReturnedKeys("B"))
        => kp["A"].val.pubKey = kp["B"].val.pubKey

\* the big-integer module returned two different public keys for one seed
C4_RedrawnKeysDiffer ==
    /\ backend["A"].go = "bigint" /\ seed["A"] = seed["B"]
    /\ ReturnedKeys("A") /\ ReturnedKeys("B")
    /\ kp["A"].val.pubKey # kp["B"].val.pubKey

\* C5 (ProtoSpec): createKeyPair(seed) returns a 33-byte pubKey that starts
\* with 5 and a privKey equal to the 32 seed bytes.
C5_KeyPairShape ==
    \A x \in Party :
        ReturnedKeys(x) => /\ Len(kp[x].val.pubKey) = TaggedKeyLen
                           /\ kp[x].val.pubKey[1] = KeyTag
                           /\ kp[x].val.privKey = seed[x]

\* the async wrapper over lib/main.go hands out the 64-byte Ed25519 key
C5_PrivKeyIs64Bytes ==
    /\ backend["A"] = [js |-> "wasmAsync", go |-> "main"]
    /\ ReturnedKeys("A") /\ Len(kp["A"].val.privKey) = 2 * KeyLen

\* the inputs the decoders are specified on: a Buffer for the JS versions, a
\* byte slice for the Go versions
DecoderInput == last.op \in ScrubVersions /\ (last.pubKey.type = "Buffer" \/
                    last.op \in {"scrubPubKey", "scrubPubKeyFormat_go"})

\* C6 (Spec): every version of the key decoder strips the first byte of a
\* 33-byte key tagged 5, returns a 32-byte key unchanged and fails on every
\* other byte string.
C6_ScrubPubKeyFormat ==
    DecoderInput =>
        LET w == last.pubKey.bytes
        IN  IF Len(w) = TaggedKeyLen /\ w[1] = KeyTag
            THEN last.out = Ret(Buf(SubSeq(w, 2, TaggedKeyLen)))
            ELSE IF Len(w) = KeyLen THEN last.out = Ret(Buf(w))
            ELSE last.out.kind = "throw"

\* a 33-byte key with another tag was rejected
C6_WrongTagRejected ==
    /\ DecoderInput /\ Len(last.pubKey.bytes) = TaggedKeyLen
    /\ last.pubKey.bytes[1] # KeyTag /\ last.out.kind = "throw"

\* C7 (Spec): decoding the key createKeyPair builds from a coordinate u (tag
\* 5, then the 32 bytes of u) returns u, in every version of the decoder.
C7_CodecRoundTrip ==
    LET w == last.pubKey.bytes
        u == SubSeq(w, 2, Len(w))
    IN  (DecoderInput /\ Len(w) = TaggedKeyLen /\ w = FormatPubKey(u))
            => last.out = Ret(Buf(u))

\* an encoded coordinate was decoded
C7_EncodedKeyDecoded ==
    /\ DecoderInput /\ last.out.kind = "return"
    /\ Len(last.pubKey.bytes) = TaggedKeyLen
    /\ last.pubKey.bytes = FormatPubKey(SubSeq(last.pubKey.bytes, 2, TaggedKeyLen))

\* C8 (Spec): verifySignature called with isInit true returns true whatever
\* the key, the message and the signature are, and raises nothing.
C8_ShortCircuitReturnsTrue ==
    (last.op = "verifySignature" /\ last.isInit) => last.out = Ret(Bool(TRUE))

\* curve25519-js: isInit is true and the call throws on the malformed key
C8_ShortCircuitThrows ==
    /\ backend[Caller].js = "curve25519js"
    /\ last.op = "verifySignature" /\ last.isInit /\ last.out.kind = "throw"

\* a Buffer key of 32 bytes or of 33 bytes tagged 5, a non-empty Buffer
\* message, a 64-byte Buffer signature, isInit false
WellFormedVerify ==
    /\ last.op = "verifySignature" /\ ~ last.isInit
    /\ last.pubKey.type = "Buffer"
    /\ \/ Len(last.pubKey.bytes) = KeyLen
       \/ Len(last.pubKey.bytes) = TaggedKeyLen /\ last.pubKey.bytes[1] = KeyTag
    /\ last.msg.type = "Buffer" /\ Len(last.msg.bytes) > 0
    /\ last.sig.type = "Buffer" /\ Len(last.sig.bytes) = SigLen

\* what the signature primitive of backend b says of a well-formed key,
\* message and signature: XEdDSA in curve25519-js, Ed25519 everywhere else
Verifies(b, pubKey, msg, sig) ==
    LET key == IF Len(pubKey) = TaggedKeyLen THEN SubSeq1(pubKey) ELSE pubKey
    IN  IF b.js = "curve25519js" THEN XVerify(key, msg, sig) ELSE EdVerify(key, msg, sig)

C10_ThrowsOrReturnsBoolean ==
    last.op = "verifySignature" =>
        (last.out.kind = "throw" \/ last.out.val.type = "boolean")

\* the wrapper returned the Error object the Go module gave it
C10_ErrorObjectReturned ==
    /\ backend[Caller].js = "wasmRaw"
    /\ last.op = "verifySignature"
    /\ last.out.kind = "return" /\ last.out.val.type = "Error"

\* C11 (Spec): createKeyPair called with a seed that is absent, not a Buffer or
\* not 32 bytes long raises an error and returns nothing.
C11_InvalidSeedRejected ==
    (/\ last.op = "createKeyPair" /\ Done(last.out)
     /\ (last.privKey.type # "Buffer" \/ Len(last.privKey.bytes) # KeyLen))
        => last.out.kind = "throw"

\* the worker backend resolves the call on a 31-byte seed with { error }
C11_WorkerResolvesWithError ==
    /\ backend[Caller].js = "worker"
    /\ last.op = "createKeyPair" /\ last.privKey = Buf(Zeros(KeyLen - 1))
    /\ last.out.kind = "return" /\ last.out.val.type = "errorRecord"

\* C12 (Spec): calculateSignature called with a valid seed and a message that
\* is absent or an empty Buffer raises an error and returns no signature.
C12_EmptyMessageRejected ==
    (/\ last.op = "calculateSignature" /\ Done(last.out)
     /\ last.privKey \in {Buf(s) : s \in ValidSeeds}
     /\ last.msg \in {Undefined, Buf(<<>>)})
        => last.out.kind = "throw"

\* tweetnacl signed the empty Buffer
C12_EmptyMessageSigned ==
    /\ backend[Caller].js = "tweetnacl"
    /\ last.op = "calculateSignature" /\ last.msg = Buf(<<>>)
    /\ last.out = Ret(Buf(EdSign(last.privKey.bytes, <<>>)))

\* C13 (Spec): verifySignature with isInit false, a well-formed key and a
\* non-empty message raises an error when the signature is absent or not 64
\* bytes long; the error is thrown, not returned.
C13_BadSignatureRaised ==
    (/\ last.op = "verifySignature" /\ ~ last.isInit /\ Done(last.out)
     /\ last.pubKey.type = "Buffer"
     /\ \/ Len(last.pubKey.bytes) = KeyLen
        \/ Len(last.pubKey.bytes) = TaggedKeyLen /\ last.pubKey.bytes[1] = KeyTag
     /\ last.msg.type = "Buffer" /\ Len(last.msg.bytes) > 0
     /\ BadSignature(last.sig))
        => last.out.kind = "throw"

\* the async wrapper over lib/main.go returned an Error for a 63-byte signature
C13_ShortSignatureReturnsError ==
    /\ backend[Caller] = [js |-> "wasmAsync", go |-> "main"]
    /\ last.op = "verifySignature" /\ ~ last.isInit
    /\ last.sig = Buf(Zeros(SigLen - 1))
    /\ last.out.kind = "return" /\ last.out.val.type = "Error"

\* C14 (Spec): for the encoding of every y with 0 <= y < p and y # 1 the
\* converter returns 32 little-endian bytes of a u < p with
\* u * (1 - y) = 1 + y modulo p.
C14_BirationalExact ==
    \A y \in 0..(FieldP - 1) :
        (last.op = "ed25519ToX25519PublicKey" /\ last.pubKey.bytes = LE32(y) /\ y # 1)
            => /\ last.out.kind = "return"
               /\ Len(last.out.val.bytes) = KeyLen
               /\ \A i \in 2..KeyLen : last.out.val.bytes[i] = 0
               /\ last.out.val.bytes[1] < FieldP
               /\ (last.out.val.bytes[1] * (1 - y) - (1 + y)) % FieldP = 0

\* y = 54 was converted to u = 73: 73 * (1 - 54) = 55 modulo 109
C14_Converted54 ==
    /\ last.op = "ed25519ToX25519PublicKey" /\ last.pubKey.bytes = LE32(54)
    /\ last.out = Ret(Buf(LE32(73)))

\* C15 (Spec): an Edwards encoding with the sign bit (top bit of the last
\* byte) set and a remaining value y < p is accepted by the converter and
\* converts to the same u as the encoding of y with the bit clear.
C15_SignBitMasked ==
    \A y \in 0..(FieldP - 1) :
        (/\ last.op = "ed25519ToX25519PublicKey"
         /\ last.pubKey.bytes = [LE32(y) EXCEPT ![KeyLen] = 128])
            => /\ last.out = ed25519ToX25519PublicKey(LE32(y))
               /\ (y # 1 => last.out.kind = "return")

\* the encoding of y = 2 with the sign bit set was rejected
C15_SignBitRejected ==
    /\ last.op = "ed25519ToX25519PublicKey"
    /\ last.pubKey.bytes = [LE32(2) EXCEPT ![KeyLen] = 128]
    /\ last.out = Throw("invalid ed25519 public key")

\* C16 (Spec): the converter rejects with an invalid-key error every 32-byte
\* input whose value y (sign bit aside) is p or more, and returns no
\* coordinate for it.
C16_NonCanonicalRejected ==
    (/\ last.op = "ed25519ToX25519PublicKey"
     /\ Len(last.pubKey.bytes) = KeyLen
     /\ \/ last.pubKey.bytes[1] >= FieldP
        \/ \E i \in 2..(KeyLen - 1) : last.pubKey.bytes[i] # 0
        \/ last.pubKey.bytes[KeyLen] % 128 # 0)
        => last.out = Throw("invalid ed25519 public key")

\* the encoding of y = p was rejected
C16_EncodingOfPRejected ==
    /\ last.op = "ed25519ToX25519PublicKey" /\ last.pubKey.bytes = LE32(FieldP)
    /\ last.out.kind = "throw"

\* C17 (Spec): on the encoding of a y < p (sign bit clear) the converter
\* fails, with an invalid-key error, for y = 1 and for no other y.
C17_OnlyIdentityFails ==
    \A y \in 0..(FieldP - 1) :
        (last.op = "ed25519ToX25519PublicKey" /\ last.pubKey.bytes = LE32(y))
            => IF y = 1 THEN last.out = Throw("invalid ed25519 public key")
               ELSE last.out.kind = "return"

\* the encoding of y = 1 was rejected
C17_IdentityRejected ==
    /\ last.op = "ed25519ToX25519PublicKey" /\ last.pubKey.bytes = LE32(1)
    /\ last.out = Throw("invalid ed25519 public key")

\* C18 (Spec): calculateAgreement with a valid seed and a key that is a Buffer
\* or absent raises an error when the wire key does not decode or when the
\* backend's conversion of the decoded key to a Montgomery coordinate fails;
\* otherwise it returns a 32-byte secret (or raises an error, when the point
\* is not valid for the multiplication).
C18_AgreementFailsOnBadKey ==
    (/\ last.op = "calculateAgreement" /\ Done(last.out)
     /\ last.privKey \in {Buf(s) : s \in ValidSeeds}
     /\ last.pubKey.type \in {"Buffer", "undefined"})
        => IF \/ scrubPubKeyFormat(last.pubKey).kind = "throw"
              \/ /\ backend[Caller].go = "bigint"
                 /\ ed25519ToX25519PublicKey(scrubPubKeyFormat(last.pubKey).val.bytes).kind
                        = "throw"
              \/ /\ backend[Caller].js = "worker"
                 /\ SodiumPkToCurve(scrubPubKeyFormat(last.pubKey).val.bytes) = <<>>
           THEN last.out.kind = "throw"
           ELSE \/ last.out.kind = "throw"
                \/ /\ last.out.kind = "return" /\ last.out.val.type = "Buffer"
                   /\ Len(last.out.val.bytes) = KeyLen

\* the worker backend resolved the call on a 31-byte key with { error }
C18_WorkerResolvesBadKeyWithError ==
    /\ backend[Caller].js = "worker"
    /\ last.op = "calculateAgreement" /\ last.pubKey = Buf(Zeros(KeyLen - 1))
    /\ last.privKey = Buf(FirstSeed)
    /\ last.out.kind = "return" /\ last.out.val.type = "errorRecord"

\* C19 (Spec): a call with a malformed input (a seed that is not a 32-byte
\* Buffer, a key that does not decode, an absent or empty message, a
\* signature that is absent or not 64 bytes long) never reaches the call into
\* the cryptographic backend; verifySignature is taken with isInit false.
C19_ValidationPrecedesBackend ==
    LET badSeed == validatePrivKey(last.privKey).kind = "throw"
        badKey  == scrubPubKeyFormat(last.pubKey).kind = "throw"
        badMsg  == last.msg \in {Undefined, Buf(<<>>)}
        badSig  == BadSignature(last.sig)
    IN  (\/ last.op = "createKeyPair" /\ badSeed
         \/ last.op = "calculateAgreement" /\ (badSeed \/ badKey)
         \/ last.op = "calculateSignature" /\ (badSeed \/ badMsg)
         \/ last.op = "verifySignature" /\ ~ last.isInit /\ (badKey \/ badMsg \/ badSig))
            => ~ EntersBackend(backend[Caller], last)

\* the async wrapper passed a 31-byte key to the Go module, whose Error
\* object it returned
C19_GoModuleGotUncheckedKey ==
    /\ backend[Caller] = [js |-> "wasmAsync", go |-> "main"]
    /\ last.op = "verifySignature" /\ ~ last.isInit
    /\ last.pubKey = Buf(Zeros(KeyLen - 1))
    /\ EntersBackend(backend[Caller], last)
    /\ last.out = Ret(ErrObj("Invalid public key format"))

\* C20 (WasmSpec): under every interleaving of the callers at most one
\* initialisation attempt is ever started (exactly one once a caller has
\* entered an export), and every caller whose call went past the
\* initialisation saw the outcome of that attempt: it continued when the
\* attempt succeeded and got the failure when it failed.
C20_InitializedOnce ==
    /\ wasm.attempts <= 1
    /\ (\E c \in Party : wasm.calls[c] > 0) => wasm.attempts = 1
    /\ \A c \in Party : /\ wasm.pc[c] = "ok" => wasm.outcome = "ok"
                        /\ wasm.pc[c] = "throw" => wasm.outcome = "fail"

\* the lazy version: the first call's initWasm() failed, the flag stayed
\* false, and the next call ran the initialisation again, this time with
\* success
C20_LazyInitRanAgain ==
    /\ wasm.version = "initWasm"
    /\ wasm.attempts = 2
    /\ wasm.initialized
    /\ \E c \in Party : wasm.pc[c] = "ok"

\* C21 (WasmSpec): once an initialisation attempt has failed, no step starts
\* another attempt and no call goes past the initialisation: every caller
\* that waits or arrives afterwards gets the failure.
C21_FailedInitIsFatal ==
    [][wasm.outcome = "fail" =>
          /\ wasm'.attempts = wasm.attempts
          /\ wasm'.outcome = "fail"
          /\ \A c \in Party : wasm'.pc[c] = "ok" => wasm.pc[c] = "ok"]_vars

\* the lazy version: one party's call failed in initWasm(), the other
\* party's later call initialised the module and went on
C21_CallProceedsAfterFailedInit ==
    /\ wasm.version = "initWasm"
    /\ wasm.attempts = 2
    /\ wasm.pc["A"] = "throw"
    /\ wasm.pc["B"] = "ok"

\* C22 (Spec): a key pair returned by generateKeyPair is the one createKeyPair
\* gives for the seed that was drawn: pubKey has 33 bytes and the tag 5,
\* privKey is that 32-byte seed (with the big-integer module, the seed its
\* loop ended on), and createKeyPair(privKey) returns the same pubKey.
C22_GeneratedPairIsCreatedPair ==
    (last.op = "generateKeyPair" /\ last.out.kind = "return") =>
        LET b == backend[Caller]
            keys == last.out.val
        IN  /\ keys.type = "keypair"
            /\ Len(keys.pubKey) = TaggedKeyLen /\ keys.pubKey[1] = KeyTag
            /\ IF b.js = "wasmErr"
               THEN /\ keys.privKey \in ValidSeeds
                    /\ createKeyPair_go_pass(keys.privKey)
                           = Ret(KeyPair(keys.pubKey, keys.privKey))
               ELSE /\ keys.privKey = last.privKey.bytes
                    /\ createKeyPair(b, Buf(keys.privKey)).kind = "return"
                    /\ createKeyPair(b, Buf(keys.privKey)).val.pubKey = keys.pubKey

\* the eager wrapper over lib/main.go returned the 64-byte Go private key,
\* which createKeyPair does not take
C22_GeneratedPrivKeyIs64Bytes ==
    /\ last.op = "generateKeyPair"
    /\ backend[Caller] = [js |-> "wasmEager", go |-> "main"]
    /\ last.out.kind = "return"
    /\ Len(last.out.val.privKey) = 2 * KeyLen
    /\ createKeyPair(backend[Caller], Buf(last.out.val.privKey)).kind = "throw"

\* C23 (Spec): no call retries: while a createKeyPair call is running, the
\* seed it derives the key pair from is the one the caller passed, and the
\* privKey of the pair it returns is that seed; it is never replaced by a
\* freshly drawn seed for another try.
C23_NoInternalRetry ==
    /\ (loop.on /\ last.op = "createKeyPair") => loop.seed = last.privKey.bytes
    /\ (last.op = "createKeyPair" /\ backend[Caller].js = "wasmErr"
            /\ last.out.kind = "return")
        => last.out.val.privKey = last.privKey.bytes

\* the big-integer module finished createKeyPair on a seed it drew itself
\* after the caller's seed gave a public key that does not convert
C23_ReturnedAfterRedraw ==
    /\ last.op = "createKeyPair"
    /\ backend[Caller].js = "wasmErr"
    /\ last.out.kind = "return"
    /\ last.out.val.privKey # last.privKey.bytes
    /\ createKeyPair_go_pass(last.privKey.bytes).kind = "redraw"

\* C24 (Spec): calculateAgreement never hands the group operation a decoded
\* coordinate that is not below the field prime: a call with a valid seed
\* and a well-formed wire key whose 32-byte coordinate (top bit aside) is p
\* or more fails and returns no shared secret.
C24_CoordinateBelowPrime ==
    LET k == scrubPubKeyFormat(last.pubKey)
        notBelowP(c) == \/ c[1] >= FieldP
                        \/ \E i \in 2..(KeyLen - 1) : c[i] # 0
                        \/ c[KeyLen] % 128 # 0
    IN  (/\ last.op = "calculateAgreement"
         /\ validatePrivKey(last.privKey).kind # "throw"
         /\ k.kind # "throw"
         /\ notBelowP(k.val.bytes))
            => ~ (last.out.kind = "return" /\ IsBytes(last.out.val))

\* the tweetnacl backend multiplied by the coordinate p + 73 and returned the
\* secret it returns for the coordinate 73
C24_AgreedOnNonCanonicalKey ==
    /\ last.op = "calculateAgreement"
    /\ backend[Caller].js = "tweetnacl"
    /\ last.pubKey = Buf(FormatPubKey(LE32(FieldP + MontBaseU)))
    /\ last.privKey = Buf(FirstSeed)
    /\ last.out = Ret(Buf(X25519Base(FirstSeed)))

\* C25 (Spec): a call dispatched to the worker resolves with the value the
\* task returns, and is rejected when the task throws inside the worker; a
\* task's exception never becomes a resolved value.
C25_WorkerTaskFailureRejects ==
    LET task == CASE last.op = "createKeyPair" -> createKeyPair_worker(last.privKey)
                  [] last.op = "calculateAgreement" ->
                        calculateAgreement_worker(last.pubKey, last.privKey)
                  [] last.op = "calculateSignature" ->
                        calculateSignature_worker(last.privKey, last.msg)
                  [] OTHER -> verifySignature_worker(last.pubKey, last.msg, last.sig)
        settled(t) == IF t.kind = "throw" THEN last.out.kind = "throw" ELSE last.out = t
    IN  (/\ backend[Caller].js = "worker"
         /\ last.op \in {"createKeyPair", "calculateAgreement", "calculateSignature",
                         "verifySignature"}
         /\ ~ last.isInit)
            => settled(task)

\* the worker's verifySignature threw on a 31-byte key and the caller's
\* promise was resolved with the object { error }
C25_VerifyFailureResolved ==
    /\ backend[Caller].js = "worker"
    /\ last.op = "verifySignature" /\ ~ last.isInit
    /\ last.pubKey = Buf(Zeros(KeyLen - 1))
    /\ verifySignature_worker(last.pubKey, last.msg, last.sig).kind = "throw"
    /\ last.out.kind = "return" /\ last.out.val.type = "errorRecord"

\* C26 (Spec): calculateAgreement called with an invalid seed and a malformed
\* wire public key fails with the error of the seed validation.
C26_SeedCheckedBeforeKey ==
    (/\ last.op = "calculateAgreement"
     /\ validatePrivKey(last.privKey).kind = "throw"
     /\ scrubPubKeyFormat(last.pubKey).kind = "throw")
        => last.out = validatePrivKey(last.privKey)

\* the curve25519-js version decoded the 31-byte key first and reported it,
\* although the seed has 31 bytes too
C26_KeyErrorReportedFirst ==
    /\ backend[Caller].js = "curve25519js"
    /\ last.op = "calculateAgreement"
    /\ last.pubKey = Buf(Zeros(KeyLen - 1))
    /\ last.privKey = Buf(Zeros(KeyLen - 1))
    /\ last.out = Throw("Invalid public key")

\* C27 (Spec): verifySignature with isInit false checks the message, then
\* the signature length, then decodes the key: with a malformed key, an
\* absent or empty message gives the invalid-message failure, and a present
\* message with an absent or wrong-length signature gives the
\* invalid-signature failure.
C27_MessageAndSignatureCheckedFirst ==
    LET badMsg == last.msg \in {Undefined, Buf(<<>>)}
        failsWith(names) == last.out.kind = "throw" /\ last.out.val.msg \in names
    IN  (/\ last.op = "verifySignature" /\ ~ last.isInit
         /\ scrubPubKeyFormat(last.pubKey).kind = "throw")
            => /\ badMsg => failsWith({"Invalid message", "invalid message"})
               /\ (~ badMsg /\ BadSignature(last.sig))
                      => failsWith({"Invalid signature", "invalid signature"})

\* the curve25519-js version decoded the 31-byte key first and reported it,
\* although no message was passed
C27_KeyErrorBeforeMessage ==
    /\ backend[Caller].js = "curve25519js"
    /\ last.op = "verifySignature" /\ ~ last.isInit
    /\ last.pubKey = Buf(Zeros(KeyLen - 1))
    /\ last.msg = Undefined
    /\ last.out = Throw("Invalid public key")

\* C28 (LoopSpec): createKeyPair of the big-integer module terminates: a call
\* that has entered the loop eventually leaves it with an outcome, the key
\* pair of a seed whose public key converts or the error of the random
\* source.
C28_LoopTerminates ==
    loop.on ~> (~ loop.on /\ Done(last.out))

\* a createKeyPair call is in the loop on a seed it has drawn itself, and the
\* public key of that seed does not convert either
C28_SecondRedrawDue ==
    /\ loop.on
    /\ last.op = "createKeyPair"
    /\ loop.seed # last.privKey.bytes
    /\ createKeyPair_go_pass(loop.seed).kind = "redraw"

\* C29 (LoopSpec): a key pair returned by createKeyPair or generateKeyPair
\* of the big-integer module is consistent and usable: pubKey is the tagged
\* Edwards public key of the returned privKey, also when the seed was
\* redrawn, ed25519ToX25519PublicKey accepts it, and calculateAgreement with
\* it does not fail in the conversion.
C29_ReturnedPairUsable ==
    (/\ last.op \in {"createKeyPair", "generateKeyPair"}
     /\ last.out.kind = "return")
        => LET usable(keys) ==
                   /\ keys.type = "keypair"
                   /\ keys.pubKey = <<KeyTag>> \o EdPublicKey(keys.privKey)
                   /\ ed25519ToX25519PublicKey(SubSeq1(keys.pubKey)).kind = "return"
               converted(agreed) ==
                   agreed.kind = "throw" => agreed.val.msg # "invalid ed25519 public key"
           IN  /\ usable(last.out.val)
               /\ converted(calculateAgreement_go(last.out.val.pubKey, FirstSeed))

\* createKeyPair returned the pair of a seed the loop drew, and the public
\* key of that pair converts while the one of the caller's seed does not
C29_RedrawnPairConverts ==
    /\ last.op = "createKeyPair"
    /\ last.out.kind = "return"
    /\ last.out.val.privKey # last.privKey.bytes
    /\ ed25519ToX25519PublicKey(EdPublicKey(last.privKey.bytes)).kind = "throw"
    /\ ed25519ToX25519PublicKey(SubSeq1(last.out.val.pubKey)).kind = "return"

\* C30 (WorkerSpec): every call dispatched by runInWorker settles, and once:
\* a worker whose script ended has posted exactly one message (the task's
\* result, or an error record when the task threw or the task name is
\* unknown), a settled promise never changes, every started call eventually
\* settles, and none is pending once its worker has exited with code 0 and
\* its message has been received.
C30_DispatchedCallSettlesOnce ==
    /\ [](worker.pc = "ended" \/ worker.code = 0 => worker.posted = 1)
    /\ [][Done(worker.promise) => worker'.promise = worker.promise]_vars
    /\ [](worker.code = 0 /\ worker.port = <<>> => Done(worker.promise))
    /\ (worker.pc = "started") ~> Done(worker.promise)

\* a call with a task name the table does not hold was resolved with an
\* error record, and its worker has exited with code 0
C30_UnknownTaskResolvedAfterExit ==
    /\ worker.task = "noSuchTask"
    /\ worker.pc = "exited"
    /\ worker.code = 0
    /\ worker.port = <<>>
    /\ worker.promise.kind = "return"
    /\ worker.promise.val.type = "errorRecord"

====
